---- MODULE Spec2Model ----
(***************************************************************************)
(* Model of ssh-mcp-server: the SSH connection manager (session pool,      *)
(* command executor, port-forward engine) and the command parser used for  *)
(* the allowlist decision.                                                 *)
(*                                                                         *)
(* The manager is event driven: every async method is cut at its awaits    *)
(* and at the callbacks it registers; one action is one synchronous run of *)
(* code between two suspension points.                                     *)
(***************************************************************************)
EXTENDS Integers, Sequences, FiniteSets, TLC

(***************************************************************************)
(* Bounds of the model                                                     *)
(***************************************************************************)
MaxPool == 2                \* maxConnections is drawn from 1..MaxPool
NumIdentities == MaxPool + 1   \* one identity more than the largest pool
MaxCalls == 3               \* manager calls (acquire / execute / open / close) per run

Identities == 1..NumIdentities
Calls == 1..MaxCalls
\* every call constructs at most one ssh2 Client; PriorClient(i) is the client
\* of identity i when it was registered before the calls of a run
PriorClient(i) == MaxCalls + i
Clients == 1..(MaxCalls + NumIdentities)
NoClient == 0

VARIABLES
    maxConnections,     \* SSHConnectionManager.maxConnections
    connections,        \* SSHConnectionManager.connections: identity -> client
    sock,               \* per client: state of (client as any)._sock
    nextClient,         \* next ssh2 Client object to be constructed
    calls,              \* per call: operation, identity, position, outcome
    chan,               \* per execute call: its exec channel and the closure
                        \* variables of the exec callback
    commandString,      \* the command handed to the authorizer
    segments,           \* the pieces the command was composed of
    allowedCommands,    \* config.allowedCommands
    commands,           \* what extractCommands returned
    allowed,            \* what isCommandAllowed returned
    dangerous,          \* what hasDangerousPatterns returned
    forwardingServers,  \* SSHConnectionManager.forwardingServers: key -> info
    listener,           \* per open call: the net.Server it created
    opens,              \* per open call: its arguments and its result
    closing,            \* the keys whose server.close callback has not run
    forwardOut,         \* the source port of the last client.forwardOut
    relays,             \* per relay: its listener, the state of its socket
                        \* and of its forwarded channel
    closeMiss,          \* a closePortForward call has named a key that was
                        \* not registered
    shutdownLog,        \* what the last disconnectAll did, in order
    tool,               \* per call: the tool handler that made it, the
                        \* command it was about and how the handler went on
    sftp                \* per file operation: the SFTP channel it obtained,
                        \* and whether a chmod request is pending on it

poolVars == <<maxConnections, connections, sock, nextClient>>
execVars == <<chan>>
parseVars == <<commandString, segments, allowedCommands, commands, allowed,
               dangerous>>
tunnelVars == <<forwardingServers, listener, opens, closing, forwardOut,
               relays>>
shutdownVars == <<closeMiss, shutdownLog>>
toolVars == <<tool, sftp>>
restVars == <<parseVars, tunnelVars, shutdownVars, toolVars>>
nonPoolVars == <<execVars, restVars>>
vars == <<maxConnections, connections, sock, nextClient, calls, chan,
          commandString, segments, allowedCommands, commands, allowed, dangerous,
          forwardingServers, listener, opens, closing, forwardOut, relays,
          closeMiss, shutdownLog, tool, sftp>>

(***************************************************************************)
(* Session pool                                                            *)
(***************************************************************************)
IdleCall == [op |-> "none", id |-> 0, pc |-> "idle", client |-> NoClient,
             error |-> "none", reused |-> FALSE, timer |-> FALSE]

\* connections.size
Size(conns) == Cardinality({i \in Identities : conns[i] # NoClient})

\* (existingClient as any)._sock && !(existingClient as any)._sock.destroyed
SockAlive(cl) == sock[cl] = "open"

AtCapacityOffByOne(size) == size > maxConnections

\* this.connections.size >= this.maxConnections
AtCapacity(size) == size >= maxConnections

\* The synchronous prefix of getConnection, up to the return of the cached
\* client, the capacity throw, or the call of createConnection.
GetConnectionSyncCapacityFirst(id) ==
    IF AtCapacity(Size(connections))
    THEN [kind |-> "capacity", conns |-> connections, client |-> NoClient]
    ELSE IF connections[id] # NoClient /\ SockAlive(connections[id])
    THEN [kind |-> "reuse", conns |-> connections, client |-> connections[id]]
    ELSE [kind |-> "create", conns |-> [connections EXCEPT ![id] = NoClient],
          client |-> NoClient]

GetConnectionSyncKeepsStale(id) ==
    IF connections[id] # NoClient
    THEN [kind |-> "reuse", conns |-> connections, client |-> connections[id]]
    ELSE IF AtCapacity(Size(connections))
    THEN [kind |-> "capacity", conns |-> connections, client |-> NoClient]
    ELSE [kind |-> "create", conns |-> connections, client |-> NoClient]

GetConnectionSync(id) ==
    IF connections[id] # NoClient /\ SockAlive(connections[id])
    THEN [kind |-> "reuse", conns |-> connections, client |-> connections[id]]
    ELSE LET evicted == [connections EXCEPT ![id] = NoClient]
         IN  IF AtCapacity(Size(evicted))
             THEN [kind |-> "capacity", conns |-> evicted, client |-> NoClient]
             ELSE [kind |-> "create", conns |-> evicted, client |-> NoClient]

\* Calls are started in the order of their numbers.
MayStart(c) ==
    /\ calls[c].pc = "idle"
    /\ IF c = 1 THEN TRUE ELSE calls[c - 1].pc # "idle"

\* Identities are interchangeable: a call names an identity that is registered
\* or that an earlier call named, or the first one not yet seen.
MayName(id) ==
    \A j \in 1..(id - 1) :
        connections[j] # NoClient \/ \E c \in Calls : calls[c].id = j

\* The synchronous prefix of getConnection run for call c, whose record is
\* `call`; a cached client is handed to the caller's continuation, which
\* leaves the call at `next`.
BeginAcquire(c, call, next) ==
    LET r == GetConnectionSync(call.id) IN
    /\ connections' = r.conns
    /\ \/ /\ r.kind = "reuse"
          /\ calls' = [calls EXCEPT ![c] = [call EXCEPT !.pc = next,
                           !.client = r.client, !.reused = TRUE]]
          /\ UNCHANGED nextClient
       \/ /\ r.kind = "capacity"
          /\ calls' = [calls EXCEPT ![c] = [call EXCEPT !.pc = "rejected",
                           !.error = "capacity"]]
          /\ UNCHANGED nextClient
       \/ /\ r.kind = "create"
          \* createConnection: new Client(), then await readFile(key)
          /\ calls' = [calls EXCEPT ![c] = [call EXCEPT !.pc = "readKey",
                           !.client = nextClient]]
          /\ nextClient' = nextClient + 1
    /\ UNCHANGED <<maxConnections, sock>>

\* getConnection(config) called directly
StartAcquire(c, id) ==
    /\ MayStart(c)
    /\ MayName(id)
    /\ BeginAcquire(c, [IdleCall EXCEPT !.op = "acquire", !.id = id], "resolved")
    /\ UNCHANGED nonPoolVars

\* readFile resolved: handlers registered, client.connect(connectConfig)
ReadKeyDone(c) ==
    /\ calls[c].pc = "readKey"
    /\ calls' = [calls EXCEPT ![c].pc = "connecting"]
    /\ sock' = [sock EXCEPT ![calls[c].client] = "connecting"]
    /\ UNCHANGED <<maxConnections, connections, nextClient>>
    /\ UNCHANGED nonPoolVars

\* readFile rejected: createConnection and getConnection reject
ReadKeyFail(c) ==
    /\ calls[c].pc = "readKey"
    /\ calls' = [calls EXCEPT ![c].pc = "rejected", ![c].error = "key"]
    /\ UNCHANGED <<maxConnections, connections, sock, nextClient>>
    /\ UNCHANGED nonPoolVars

\* client.on('ready'): resolve(client)
ConnectReady(c) ==
    /\ calls[c].pc = "connecting"
    /\ calls' = [calls EXCEPT ![c].pc = "ready"]
    /\ sock' = [sock EXCEPT ![calls[c].client] = "open"]
    /\ UNCHANGED <<maxConnections, connections, nextClient>>
    /\ UNCHANGED nonPoolVars

ConnectErrorRegisters(c) ==
    /\ calls[c].pc = "connecting"
    /\ calls' = [calls EXCEPT ![c].pc = "rejected", ![c].error = "connect"]
    /\ sock' = [sock EXCEPT ![calls[c].client] = "destroyed"]
    /\ connections' = [connections EXCEPT ![calls[c].id] = calls[c].client]
    /\ UNCHANGED <<maxConnections, nextClient>>
    /\ UNCHANGED nonPoolVars

\* client.on('error'): reject(err)
ConnectError(c) ==
    /\ calls[c].pc = "connecting"
    /\ calls' = [calls EXCEPT ![c].pc = "rejected", ![c].error = "connect"]
    /\ sock' = [sock EXCEPT ![calls[c].client] = "destroyed"]
    /\ UNCHANGED <<maxConnections, connections, nextClient>>
    /\ UNCHANGED nonPoolVars

\* the continuation of `await this.createConnection(config)`:
\* this.connections.set(key, client); return client
Register(c) ==
    /\ calls[c].pc = "ready"
    /\ calls[c].op = "acquire"
    /\ connections' = [connections EXCEPT ![calls[c].id] = calls[c].client]
    /\ calls' = [calls EXCEPT ![c].pc = "resolved"]
    /\ UNCHANGED <<maxConnections, sock, nextClient>>
    /\ UNCHANGED nonPoolVars

\* the transport's socket is lost (peer reset, network failure)
SockDies(cl) ==
    /\ sock[cl] = "open"
    /\ sock' = [sock EXCEPT ![cl] = "destroyed"]
    /\ UNCHANGED <<maxConnections, connections, nextClient, calls>>
    /\ UNCHANGED nonPoolVars

(***************************************************************************)
(* Command executor                                                        *)
(***************************************************************************)
MaxExecs == 1               \* execute calls per run
MaxChunks == 2              \* data events delivered per run, over all exec channels

ExecCalls == 1..MaxExecs
Null == "null"
ExitCodes == {"0", "1"}
\* commandTimeout as the caller passes it: absent, null, a finite positive
\* number, or anything else
Timeouts == {"undefined", "null", "positive", "invalid"}

\* validateCommandTimeout returns (does not throw)
ValidCommandTimeout(t) == t \in {"undefined", "null", "positive"}

\* commandTimeout !== undefined
TimerWanted(t) == t # "undefined"

\* the closure of the exec callback; `settles` counts the calls of the
\* promise's resolve/reject, `first`, `recvOut`, `recvErr` and `atExpiry`
\* record what the channel and the timer delivered
NoChan == [open |-> FALSE, stdout |-> <<>>, stderr |-> <<>>, exitCode |-> Null,
           settled |-> FALSE, timeoutId |-> FALSE, forceClosed |-> FALSE,
           closeEmitted |-> FALSE, errorEmitted |-> FALSE,
           settles |-> 0, result |-> Null,
           first |-> "none", firstCode |-> Null,
           recvOut |-> <<>>, recvErr |-> <<>>, atExpiry |-> Null]

\* executeCommand: validateCommandTimeout, then await getConnection; with a
\* cached client the continuation calls client.exec(command, callback)
executeCommand(c, id, t) ==
    /\ IF ValidCommandTimeout(t)
       THEN BeginAcquire(c, [IdleCall EXCEPT !.op = "execute", !.id = id,
                                !.timer = TimerWanted(t)], "execRequested")
       ELSE /\ calls' = [calls EXCEPT ![c] = [IdleCall EXCEPT !.op = "execute",
                             !.id = id, !.pc = "rejected",
                             !.error = "commandTimeout"]]
            /\ UNCHANGED poolVars
    /\ UNCHANGED execVars

\* sshManager.executeCommand(config, command, commandTimeout) called directly
StartExecute(c, id, t) ==
    /\ MayStart(c)
    /\ MayName(id)
    /\ executeCommand(c, id, t)
    /\ UNCHANGED restVars

\* the continuation of `await this.getConnection(config)` after a connect:
\* connections.set, then client.exec(command, callback)
RegisterExecute(c) ==
    /\ calls[c].pc = "ready"
    /\ calls[c].op = "execute"
    /\ connections' = [connections EXCEPT ![calls[c].id] = calls[c].client]
    /\ calls' = [calls EXCEPT ![c].pc = "execRequested"]
    /\ UNCHANGED <<maxConnections, sock, nextClient>>
    /\ UNCHANGED execVars
    /\ UNCHANGED restVars

\* exec callback with err: reject(err)
ExecCallbackError(c) ==
    /\ calls[c].pc = "execRequested"
    /\ calls' = [calls EXCEPT ![c].pc = "rejected", ![c].error = "exec"]
    /\ UNCHANGED poolVars
    /\ UNCHANGED execVars
    /\ UNCHANGED restVars

ExecCallbackStreamNoTimer(c) ==
    /\ calls[c].pc = "execRequested"
    /\ calls' = [calls EXCEPT ![c].pc = "pending"]
    /\ chan' = [chan EXCEPT ![c] = [NoChan EXCEPT !.open = TRUE]]
    /\ UNCHANGED poolVars
    /\ UNCHANGED restVars

\* exec callback with the stream: the closure variables are initialised, the
\* timer is armed when commandTimeout !== undefined, the handlers registered
ExecCallbackStream(c) ==
    /\ calls[c].pc = "execRequested"
    /\ calls' = [calls EXCEPT ![c].pc = "pending"]
    /\ chan' = [chan EXCEPT ![c] = [NoChan EXCEPT !.open = TRUE,
                    !.timeoutId = calls[c].timer]]
    /\ UNCHANGED poolVars
    /\ UNCHANGED restVars

SettleUnguarded(c, how, result, ch) ==
    /\ chan' = [chan EXCEPT ![c] = [ch EXCEPT !.settled = TRUE,
                    !.timeoutId = FALSE, !.settles = @ + 1, !.result = result]]
    /\ calls' = [calls EXCEPT ![c].pc = how,
                    ![c].error = IF how = "rejected" THEN "channel" ELSE "none"]

SettleLeavesTimer(c, how, result, ch) ==
    IF ch.settled
    THEN /\ chan' = [chan EXCEPT ![c] = ch]
         /\ UNCHANGED calls
    ELSE /\ chan' = [chan EXCEPT ![c] = [ch EXCEPT !.settled = TRUE,
                         !.settles = @ + 1, !.result = result]]
         /\ calls' = [calls EXCEPT ![c].pc = how,
                         ![c].error = IF how = "rejected" THEN "channel" ELSE "none"]

\* resolveOnce / rejectOnce: `ch` is the closure after the handler's own
\* assignments, `how` is "resolved" or "rejected"
Settle(c, how, result, ch) ==
    IF ch.settled
    THEN /\ chan' = [chan EXCEPT ![c] = ch]
         /\ UNCHANGED calls
    ELSE /\ chan' = [chan EXCEPT ![c] = [ch EXCEPT !.settled = TRUE,
                         !.timeoutId = FALSE, !.settles = @ + 1,
                         !.result = result]]
         /\ calls' = [calls EXCEPT ![c].pc = how,
                         ![c].error = IF how = "rejected" THEN "channel" ELSE "none"]

\* the first of close / error / timeout that the channel and timer deliver
Delivered(ch, event, code) ==
    IF ch.first = "none" THEN [ch EXCEPT !.first = event, !.firstCode = code]
    ELSE ch

ChunksSeen(ch) == Len(ch.recvOut) + Len(ch.recvErr)

RECURSIVE ChunksOfCalls(_)
ChunksOfCalls(n) == IF n = 0 THEN 0 ELSE ChunksSeen(chan[n]) + ChunksOfCalls(n - 1)

\* the remote side has more output to send
MoreData == ChunksOfCalls(MaxCalls) < MaxChunks

StdoutDataSharedAccumulator(c) ==
    /\ chan[c].open
    /\ ~chan[c].closeEmitted
    /\ MoreData
    /\ LET chunk == <<c, ChunksSeen(chan[c]) + 1>> IN
       chan' = [d \in Calls |->
                   IF d = c
                   THEN [chan[d] EXCEPT !.stdout = @ \o <<chunk>>,
                                        !.recvOut = Append(@, chunk)]
                   ELSE IF chan[d].open
                   THEN [chan[d] EXCEPT !.stdout = @ \o <<chunk>>]
                   ELSE chan[d]]
    /\ UNCHANGED calls
    /\ UNCHANGED poolVars
    /\ UNCHANGED restVars

\* stream.on('data'): stdout += data.toString()
StdoutData(c) ==
    /\ chan[c].open
    /\ ~chan[c].closeEmitted
    /\ MoreData
    /\ LET chunk == <<c, ChunksSeen(chan[c]) + 1>> IN
       chan' = [chan EXCEPT ![c].stdout = @ \o <<chunk>>,
                            ![c].recvOut = Append(@, chunk)]
    /\ UNCHANGED calls
    /\ UNCHANGED poolVars
    /\ UNCHANGED restVars

\* stream.stderr.on('data'): stderr += data.toString()
StderrData(c) ==
    /\ chan[c].open
    /\ ~chan[c].closeEmitted
    /\ MoreData
    /\ LET chunk == <<c, ChunksSeen(chan[c]) + 1>> IN
       chan' = [chan EXCEPT ![c].stderr = @ \o <<chunk>>,
                            ![c].recvErr = Append(@, chunk)]
    /\ UNCHANGED calls
    /\ UNCHANGED poolVars
    /\ UNCHANGED restVars

\* stream.on('close'): exitCode = code; resolveOnce({stdout, stderr, exitCode})
ChannelClose(c, code) ==
    /\ chan[c].open
    /\ ~chan[c].closeEmitted
    /\ LET ch == [Delivered(chan[c], "close", code) EXCEPT !.exitCode = code,
                                                          !.closeEmitted = TRUE]
       IN  Settle(c, "resolved",
                  [stdout |-> ch.stdout, stderr |-> ch.stderr,
                   exitCode |-> ch.exitCode, timedOut |-> "undefined"], ch)
    /\ UNCHANGED poolVars
    /\ UNCHANGED restVars

\* stream.on('error'): rejectOnce(err)
ChannelError(c) ==
    /\ chan[c].open
    /\ ~chan[c].closeEmitted
    /\ ~chan[c].errorEmitted
    /\ LET ch == [Delivered(chan[c], "error", Null) EXCEPT !.errorEmitted = TRUE]
       IN  Settle(c, "rejected", "error", ch)
    /\ UNCHANGED poolVars
    /\ UNCHANGED restVars

TimeoutResultWithoutOutput(ch) ==
    [stdout |-> <<>>, stderr |-> <<>>, exitCode |-> Null, timedOut |-> "true"]

\* { stdout, stderr, exitCode: null, timedOut: true }
TimeoutResult(ch) ==
    [stdout |-> ch.stdout, stderr |-> ch.stderr, exitCode |-> Null,
     timedOut |-> "true"]

TimeoutFiresDropsSession(c) ==
    /\ chan[c].open
    /\ chan[c].timeoutId
    /\ LET ch == [Delivered(chan[c], "timeout", Null) EXCEPT !.forceClosed = TRUE,
                     !.atExpiry = [stdout |-> chan[c].recvOut,
                                   stderr |-> chan[c].recvErr]]
       IN  Settle(c, "resolved", TimeoutResult(ch), ch)
    /\ connections' = [connections EXCEPT ![calls[c].id] = NoClient]
    /\ UNCHANGED <<maxConnections, sock, nextClient>>
    /\ UNCHANGED restVars

\* the setTimeout callback: stream.close(); resolveOnce(timeout result)
TimeoutFires(c) ==
    /\ chan[c].open
    /\ chan[c].timeoutId
    /\ LET ch == [Delivered(chan[c], "timeout", Null) EXCEPT !.forceClosed = TRUE,
                     !.atExpiry = [stdout |-> chan[c].recvOut,
                                   stderr |-> chan[c].recvErr]]
       IN  Settle(c, "resolved", TimeoutResult(ch), ch)
    /\ UNCHANGED poolVars
    /\ UNCHANGED restVars

(***************************************************************************)
(* File operations.  A call that resolves with an error recorded has       *)
(* returned { success: false }.                                            *)
(***************************************************************************)
MaxFileOps == 2             \* file operations per run

\* uploadFile, downloadFile, listRemoteFiles or deleteRemoteFile is called:
\* upload awaits stat(localPath) first, the others start with getSFTP, whose
\* first step is `await this.getConnection(config)`; with a cached client
\* the continuation calls client.sftp(callback)
StartFileOp(c, id, op) ==
    /\ MayStart(c)
    /\ MayName(id)
    /\ LET call == [IdleCall EXCEPT !.op = op, !.id = id] IN
       IF op = "upload"
       THEN /\ calls' = [calls EXCEPT ![c] = [call EXCEPT !.pc = "stat"]]
            /\ UNCHANGED poolVars
       ELSE BeginAcquire(c, call, "sftpRequested")
    /\ UNCHANGED <<execVars, parseVars, tunnelVars, shutdownVars, toolVars>>

\* uploadFile after `await stat(expandedLocalPath)`: a file goes on to
\* getSFTP; a path that is not a file, and a stat that threw, return
\* { success: false }
StatDone(c, outcome) ==
    /\ calls[c].pc = "stat"
    /\ IF outcome = "file"
       THEN BeginAcquire(c, calls[c], "sftpRequested")
       ELSE /\ calls' = [calls EXCEPT ![c].pc = "resolved", ![c].error = outcome]
            /\ UNCHANGED poolVars
    /\ UNCHANGED <<execVars, parseVars, tunnelVars, shutdownVars, toolVars>>

\* the callback of client.sftp: with err getSFTP rejects, which list
\* rethrows and the other operations turn into { success: false }; with
\* the channel the operation registers its handlers or sends its request
SftpCallback(c, err) ==
    /\ calls[c].pc = "sftpRequested"
    /\ IF err
       THEN /\ calls' = [calls EXCEPT
                            ![c].pc = IF calls[c].op = "list" THEN "rejected"
                                      ELSE "resolved",
                            ![c].error = "sftp"]
            /\ UNCHANGED sftp
       ELSE /\ calls' = [calls EXCEPT
                            ![c].pc = IF calls[c].op \in {"upload", "download"}
                                      THEN "transfer" ELSE "request"]
            /\ sftp' = [sftp EXCEPT ![c].state = "open"]
    /\ UNCHANGED <<poolVars, execVars, parseVars, tunnelVars, shutdownVars, tool>>

ChmodCallbackEndsInTry(c, err) ==
    /\ sftp[c].chmod
    /\ sftp' = [sftp EXCEPT ![c].chmod = FALSE,
                            ![c].state = IF err THEN @ ELSE "ended"]
    /\ calls' = [calls EXCEPT ![c].pc = IF @ = "chmod" THEN "resolved" ELSE @]
    /\ UNCHANGED <<poolVars, execVars, parseVars, tunnelVars, shutdownVars, tool>>

\* a stream of an upload or download emits an event and its handler runs:
\* close of the write stream, error of the write stream, error of the read
\* stream.  The error handlers call sftp.end() and reject.  The close
\* handler of download calls sftp.end() and resolves; that of upload does
\* the same when no permissions were given, and otherwise sends chmod and
\* awaits its callback.  A read stream can fail while the chmod is awaited.
StreamEvent(c, ev, permissions) ==
    /\ calls[c].pc \in (IF ev = "readError" THEN {"transfer", "chmod"}
                        ELSE {"transfer"})
    /\ IF ev = "writeClose" /\ calls[c].op = "upload" /\ permissions
       THEN /\ sftp' = [sftp EXCEPT ![c].chmod = TRUE]
            /\ calls' = [calls EXCEPT ![c].pc = "chmod"]
       ELSE /\ sftp' = [sftp EXCEPT ![c].state = "ended"]
            /\ calls' = [calls EXCEPT
                            ![c].pc = IF ev = "writeClose" THEN "resolved"
                                      ELSE "rejected",
                            ![c].error = IF ev = "writeClose" THEN @ ELSE ev]
    /\ UNCHANGED <<poolVars, execVars, parseVars, tunnelVars, shutdownVars, tool>>

\* the callback of sftp.chmod in the close handler of upload: a failure is
\* caught and logged; then sftp.end() and resolve({ success: true, .. }),
\* which has no effect on a promise that an error handler has rejected
ChmodCallback(c, err) ==
    /\ sftp[c].chmod
    /\ sftp' = [sftp EXCEPT ![c].chmod = FALSE, ![c].state = "ended"]
    /\ calls' = [calls EXCEPT ![c].pc = IF @ = "chmod" THEN "resolved" ELSE @]
    /\ UNCHANGED <<poolVars, execVars, parseVars, tunnelVars, shutdownVars, tool>>

\* the callback of sftp.readdir or sftp.unlink: sftp.end() first; then with
\* err list rejects and delete returns { success: false }
RequestCallback(c, err) ==
    /\ calls[c].pc = "request"
    /\ sftp' = [sftp EXCEPT ![c].state = "ended"]
    /\ calls' = [calls EXCEPT
                    ![c].pc = IF err /\ calls[c].op = "list" THEN "rejected"
                              ELSE "resolved",
                    ![c].error = IF ~err THEN @
                                 ELSE IF calls[c].op = "list" THEN "readdir"
                                 ELSE "unlink"]
    /\ UNCHANGED <<poolVars, execVars, parseVars, tunnelVars, shutdownVars, tool>>

(***************************************************************************)
(* Tunnel engine.  A net.Server is named by the open call that created it; *)
(* a forward key is <<identity, local port, remote target>>.               *)
(***************************************************************************)
MaxOpens == 2               \* open calls per run
NumTargets == 1             \* remote (host, port) pairs
FixedPort == 1              \* the non-zero local port that callers ask for
MaxRelays == 2              \* inbound connections relayed per run

OpenCalls == 1..MaxOpens
\* the identity that open calls name
OpenIdentities == {i \in Identities : i <= 1}
\* the clients in the session registry
RegisteredClients == {connections[i] : i \in Identities} \ {NoClient}
Ports == 1..MaxOpens        \* the ports the OS can hand out
Targets == 1..NumTargets
LocalPorts == {0, FixedPort}
Keys == Identities \X (0..MaxOpens) \X Targets
NoServer == 0
NoEntry == [server |-> NoServer, localPort |-> 0]
NoListener == [state |-> "none", port |-> 0]
NoForwardOut == [server |-> NoServer, srcPort |-> 0]
\* a relay: the listener that accepted the socket, the state of the socket
\* and of the forwarded channel, and whether socket.pipe has an end of the
\* channel scheduled because the socket had ended before it was piped
NoRelay == [server |-> NoServer, side |-> [socket |-> "none", stream |-> "none"],
            pipeEnd |-> FALSE]
NoOpen == [localPort |-> 0, target |-> 0, registeredAtCall |-> FALSE,
           status |-> "none", port |-> 0]

\* `${getConnectionKey(config)}:${localPort}->${remoteHost}:${remotePort}`
ForwardKey(id, localPort, target) == <<id, localPort, target>>

\* this.forwardingServers.has(key)
Has(key) == forwardingServers[key] # NoEntry

DedupeNever(localPort, key) == FALSE

\* localPort !== 0 && this.forwardingServers.has(forwardKey)
DedupeHit(localPort, key) == localPort # 0 /\ Has(key)

\* the local ports on which a listener of this process is bound
BoundPorts == {listener[c].port : c \in {d \in Calls : listener[d].state = "listening"}}

\* a port that no caller names and that no listener or key has carried yet
Unused(p) ==
    /\ p # FixedPort
    /\ \A c \in Calls : listener[c].port # p
    /\ \A key \in Keys : Has(key) => key[2] # p

\* The ports the OS can choose from for a bind to port 0: the free ones;
\* unused ports are interchangeable, the lowest stands for them all.
EphemeralPorts ==
    {p \in Ports \ BoundPorts : Unused(p) => \A q \in Ports \ BoundPorts :
                                                 Unused(q) => p <= q}

\* what bind() can give server.listen(localPort, '127.0.0.1'): a free port
\* of the OS's choice for 0, the port itself when it is free, else 0 for
\* the failure (EADDRINUSE)
BindOutcomes(localPort) ==
    IF localPort = 0
    THEN IF EphemeralPorts = {} THEN {0} ELSE EphemeralPorts
    ELSE IF localPort \in BoundPorts THEN {0} ELSE {localPort}

\* setupPortForward after `await this.getConnection(config)`: the dedupe
\* check, and without a hit createServer and server.listen
AfterAcquire(c, call, localPort, target, atCall) ==
    LET key == ForwardKey(call.id, localPort, target)
        open == [localPort |-> localPort, target |-> target,
                 registeredAtCall |-> atCall, status |-> "none", port |-> 0]
    IN  /\ IF DedupeHit(localPort, key)
           THEN /\ calls' = [calls EXCEPT ![c] = [call EXCEPT !.pc = "resolved"]]
                /\ opens' = [opens EXCEPT ![c] = [open EXCEPT
                                 !.status = "already_active", !.port = localPort]]
                /\ UNCHANGED listener
           ELSE /\ calls' = [calls EXCEPT ![c] = [call EXCEPT !.pc = "listen"]]
                /\ opens' = [opens EXCEPT ![c] = open]
                /\ \E p \in BindOutcomes(localPort) :
                      listener' = [listener EXCEPT ![c] =
                                      IF p = 0 THEN [state |-> "failed", port |-> 0]
                                      ELSE [state |-> "listening", port |-> p]]
        /\ UNCHANGED <<forwardingServers, closing, forwardOut, relays>>

\* setupPortForward(config, localPort, remoteHost, remotePort): with a cached
\* client the call goes on to the dedupe check, else it waits for the connect
StartOpen(c, id, localPort, target) ==
    LET call == [IdleCall EXCEPT !.op = "open", !.id = id]
        r == GetConnectionSync(id)
        atCall == Has(ForwardKey(id, localPort, target))
    IN  /\ MayStart(c)
        /\ MayName(id)
        \* targets are interchangeable: a call names a target that an earlier
        \* call named, or the first one not yet seen
        /\ \A j \in 1..(target - 1) : \E d \in Calls : opens[d].target = j
        /\ IF r.kind = "reuse"
           THEN /\ AfterAcquire(c, [call EXCEPT !.client = r.client, !.reused = TRUE],
                                localPort, target, atCall)
                /\ UNCHANGED poolVars
           ELSE /\ BeginAcquire(c, call, "listen")
                /\ opens' = [opens EXCEPT ![c] = [NoOpen EXCEPT
                                 !.localPort = localPort, !.target = target,
                                 !.registeredAtCall = atCall]]
                /\ UNCHANGED <<forwardingServers, listener, closing, forwardOut, relays>>
        /\ UNCHANGED <<execVars, parseVars, shutdownVars, toolVars>>

\* the continuation of `await this.getConnection(config)` after a connect:
\* connections.set, then the dedupe check and the listen
RegisterOpen(c) ==
    /\ calls[c].pc = "ready"
    /\ calls[c].op = "open"
    /\ connections' = [connections EXCEPT ![calls[c].id] = calls[c].client]
    /\ AfterAcquire(c, calls[c], opens[c].localPort, opens[c].target,
                    opens[c].registeredAtCall)
    /\ UNCHANGED <<maxConnections, sock, nextClient>>
    /\ UNCHANGED <<execVars, parseVars, shutdownVars, toolVars>>

AllocatedPortLiteral(localPort, addressPort) == localPort

\* localPort === 0 ? (server.address() as any).port : localPort
AllocatedPort(localPort, addressPort) ==
    IF localPort = 0 THEN addressPort ELSE localPort

\* the callback of server.listen: forwardingServers.set(actualForwardKey, ..)
\* and resolve({ localPort: allocatedPort, status: 'active' })
ListenCallback(c) ==
    /\ calls[c].pc = "listen"
    /\ listener[c].state = "listening"
    /\ LET allocatedPort == AllocatedPort(opens[c].localPort, listener[c].port)
           actualForwardKey == ForwardKey(calls[c].id, allocatedPort, opens[c].target)
       IN  /\ forwardingServers' = [forwardingServers EXCEPT ![actualForwardKey] =
                                       [server |-> c, localPort |-> allocatedPort]]
           /\ opens' = [opens EXCEPT ![c].status = "active", ![c].port = allocatedPort]
    /\ calls' = [calls EXCEPT ![c].pc = "resolved"]
    /\ UNCHANGED <<listener, closing, forwardOut, relays>>
    /\ UNCHANGED <<poolVars, execVars, parseVars, shutdownVars, toolVars>>

\* an error handler that rejects and still registers the tunnel
ListenErrorRegisters(c) ==
    /\ calls[c].pc = "listen"
    /\ listener[c].state = "failed"
    /\ calls' = [calls EXCEPT ![c].pc = "rejected", ![c].error = "listen"]
    /\ forwardingServers' =
          [forwardingServers EXCEPT
              ![ForwardKey(calls[c].id, opens[c].localPort, opens[c].target)] =
                  [server |-> c, localPort |-> opens[c].localPort]]
    /\ UNCHANGED <<listener, opens, closing, forwardOut, relays>>
    /\ UNCHANGED <<poolVars, execVars, parseVars, shutdownVars, toolVars>>

\* server.on('error'): reject(err)
ListenError(c) ==
    /\ calls[c].pc = "listen"
    /\ listener[c].state = "failed"
    /\ calls' = [calls EXCEPT ![c].pc = "rejected", ![c].error = "listen"]
    /\ UNCHANGED tunnelVars
    /\ UNCHANGED <<poolVars, execVars, parseVars, shutdownVars, toolVars>>

\* socket.localPort || localPort, for a socket accepted by the listener
SourcePort(socketLocalPort, localPort) ==
    IF socketLocalPort # 0 THEN socketLocalPort ELSE localPort

\* the connection listener of createServer: client.forwardOut('127.0.0.1',
\* socket.localPort || localPort, remoteHost, remotePort, ..)
Accept(c) ==
    /\ listener[c].state = "listening"
    /\ calls[c].pc = "resolved"
    /\ forwardOut' = [server |-> c,
                      srcPort |-> SourcePort(listener[c].port, opens[c].localPort)]
    /\ UNCHANGED <<forwardingServers, listener, opens, closing, relays>>
    /\ UNCHANGED <<poolVars, calls, execVars, parseVars, shutdownVars, toolVars>>

\* the callback of client.forwardOut for the socket of the last inbound
\* connection, with err, or with a stream: socket.pipe(stream),
\* stream.pipe(socket) and the six handlers.  A socket whose peer has
\* finished in the meantime has emitted end and close to no handler of the
\* relay; piping it schedules the end of the stream for the next tick.
ForwardOutCallback(r, err) ==
    /\ forwardOut # NoForwardOut
    /\ relays[r] = NoRelay
    /\ \A q \in 1..(r - 1) : relays[q] # NoRelay
    /\ IF err
       THEN relays' = [relays EXCEPT ![r] =
                [server |-> forwardOut.server,
                 side |-> [socket |-> "destroyed", stream |-> "none"],
                 pipeEnd |-> FALSE]]
       ELSE \E ended \in BOOLEAN :
                relays' = [relays EXCEPT ![r] =
                    [server |-> forwardOut.server,
                     side |-> [socket |-> IF ended THEN "closed" ELSE "open",
                               stream |-> "open"],
                     pipeEnd |-> ended]]
    /\ forwardOut' = NoForwardOut
    /\ UNCHANGED <<forwardingServers, listener, opens, closing>>
    /\ UNCHANGED <<poolVars, calls, execVars, parseVars, shutdownVars, toolVars>>

\* the socket of the last inbound connection emits error (its peer reset the
\* connection) before the forwardOut callback has run.  The connection
\* listener has registered no handler on the socket yet, so the event is an
\* unhandled 'error' of the runtime: the process ends, and with it every
\* listener, the registry, every relay and every transport.
SocketErrorUnhandled ==
    /\ forwardOut # NoForwardOut
    /\ forwardOut' = NoForwardOut
    /\ listener' = [c \in Calls |->
                       IF listener[c].state = "listening"
                       THEN [listener[c] EXCEPT !.state = "closed"]
                       ELSE listener[c]]
    /\ forwardingServers' = [key \in Keys |-> NoEntry]
    /\ relays' = [r \in 1..MaxRelays |->
                     [relays[r] EXCEPT
                         !.side = [x \in {"socket", "stream"} |->
                                      IF @[x] = "open" THEN "destroyed" ELSE @[x]],
                         !.pipeEnd = FALSE]]
    /\ sock' = [cl \in Clients |-> IF sock[cl] = "open" THEN "destroyed" ELSE sock[cl]]
    /\ UNCHANGED <<maxConnections, connections, nextClient, calls>>
    /\ UNCHANGED <<opens, closing>>
    /\ UNCHANGED <<execVars, parseVars, shutdownVars, toolVars>>

\* the end that socket.pipe(stream) scheduled: stream.end()
PipeEnd(r) ==
    /\ relays[r].pipeEnd
    /\ relays' = [relays EXCEPT ![r].pipeEnd = FALSE,
                      ![r].side.stream = IF @ = "open" THEN "ended" ELSE @]
    /\ UNCHANGED <<forwardingServers, listener, opens, closing, forwardOut>>
    /\ UNCHANGED <<poolVars, calls, execVars, parseVars, shutdownVars, toolVars>>

RelayEventOneWay(r, side, ev) ==
    /\ relays[r].side.stream # "none"
    /\ relays[r].side[side] = "open"
    /\ relays' = [relays EXCEPT ![r].side[side] =
                      IF ev = "close" THEN "closed" ELSE ev]
    /\ UNCHANGED <<forwardingServers, listener, opens, closing, forwardOut>>
    /\ UNCHANGED <<poolVars, calls, execVars, parseVars, shutdownVars, toolVars>>

\* one side of a relay (socket or stream) emits end, close or error, and the
\* handler registered for it runs: end and close end the other side, error
\* destroys it.  A side emits end while its readable half is open, error
\* until it has closed, and close once.
RelayEvent(r, side, ev) ==
    LET other == IF side = "socket" THEN "stream" ELSE "socket"
        from == relays[r].side[side]
        to == relays[r].side[other]
    IN  /\ relays[r].side.stream # "none"
        /\ from \in (CASE ev = "end" -> {"open", "ended"}
                       [] ev = "error" -> {"open", "end", "ended"}
                       [] OTHER -> {"open", "end", "error", "ended", "destroyed"})
        /\ relays' = [relays EXCEPT ![r].side =
                 [relays[r].side EXCEPT
                     ![side] = IF ev = "close" THEN "closed" ELSE ev,
                     ![other] = IF ev = "error"
                                THEN IF to = "closed" THEN to ELSE "destroyed"
                                ELSE IF to = "open" THEN "ended" ELSE to]]
        /\ UNCHANGED <<forwardingServers, listener, opens, closing, forwardOut>>
        /\ UNCHANGED <<poolVars, calls, execVars, parseVars, shutdownVars, toolVars>>

\* closePortForward on a registered key: forwardInfo.server.close(callback);
\* the listener stops listening now, the callback runs once its connections
\* have ended.  A key is not closed again while its callback is pending.
ClosePortForward(key) ==
    /\ Has(key)
    /\ key \notin closing
    /\ LET server == forwardingServers[key].server IN
       listener' = [listener EXCEPT ![server].state = "closed"]
    /\ closing' = closing \cup {key}
    /\ UNCHANGED <<forwardingServers, opens, forwardOut, relays>>
    /\ UNCHANGED <<poolVars, calls, execVars, parseVars, shutdownVars, toolVars>>

\* the callback of server.close: this.forwardingServers.delete(forwardKey)
CloseCallback(key) ==
    /\ key \in closing
    /\ closing' = closing \ {key}
    /\ forwardingServers' = [forwardingServers EXCEPT ![key] = NoEntry]
    /\ UNCHANGED <<listener, opens, forwardOut, relays>>
    /\ UNCHANGED <<poolVars, calls, execVars, parseVars, shutdownVars, toolVars>>

CloseUnknownClosesAll(key) ==
    /\ ~closeMiss
    /\ ~Has(key)
    /\ closeMiss' = TRUE
    /\ listener' = [c \in Calls |-> [listener[c] EXCEPT !.state =
                       IF @ = "listening" THEN "closed" ELSE @]]
    /\ UNCHANGED <<forwardingServers, opens, closing, forwardOut, relays, shutdownLog>>
    /\ UNCHANGED <<poolVars, calls, execVars, parseVars, toolVars>>

\* closePortForward on a key that is not registered: forwardInfo is
\* undefined, the async function returns.  The first such call is recorded.
CloseUnknown(key) ==
    /\ ~closeMiss
    /\ ~Has(key)
    /\ closeMiss' = TRUE
    /\ UNCHANGED <<tunnelVars, shutdownLog>>
    /\ UNCHANGED <<poolVars, calls, execVars, parseVars, toolVars>>

\* the servers in the tunnel registry
RegisteredServers == {forwardingServers[key].server : key \in {k \in Keys : Has(k)}}

SessionsKeptAfterDisconnect == connections

\* the session registry after `this.connections.delete(key)` for every entry
SessionsAfterDisconnect == [i \in Identities |-> NoClient]

\* disconnectAll(), which the shutdown hook calls once: server.close() and
\* forwardingServers.delete for every tunnel, then client.end() and
\* connections.delete for every session
DisconnectAll ==
    /\ shutdownLog = <<>>
    /\ listener' = [c \in Calls |->
                       IF c \in RegisteredServers
                       THEN [listener[c] EXCEPT !.state = "closed"]
                       ELSE listener[c]]
    /\ forwardingServers' = [key \in Keys |-> NoEntry]
    /\ sock' = [cl \in Clients |->
                   IF cl \in RegisteredClients THEN "ended" ELSE sock[cl]]
    /\ connections' = SessionsAfterDisconnect
    /\ shutdownLog' = << [step |-> "server.close", objects |-> RegisteredServers],
                         [step |-> "client.end", objects |-> RegisteredClients] >>
    /\ UNCHANGED <<opens, closing, forwardOut, relays, closeMiss>>
    /\ UNCHANGED <<maxConnections, nextClient, calls, execVars, parseVars, toolVars>>

\* listPortForwards()
listPortForwards ==
    {[sshHost |-> key[1], localPort |-> forwardingServers[key].localPort,
      remote |-> key[3], status |-> "active"] : key \in {k \in Keys : Has(k)}}

\* no tunnel has been opened
TunnelIdle ==
    /\ forwardingServers = [key \in Keys |-> NoEntry]
    /\ listener = [c \in Calls |-> NoListener]
    /\ opens = [c \in Calls |-> NoOpen]
    /\ closing = {}
    /\ forwardOut = NoForwardOut
    /\ relays = [r \in 1..MaxRelays |-> NoRelay]
    /\ closeMiss = FALSE
    /\ shutdownLog = <<>>

(***************************************************************************)
(* Command parser.  A string is a sequence of one-character strings; a     *)
(* token is [t |-> "str" | "op" | "comment", v |-> string].                *)
(***************************************************************************)
\* the grave accent, under a name: a string literal cannot hold it
Backtick == "backtick"
Spaces == {" ", "\t"}
MetaChars == {"|", "&", ";", "(", ")", "<", ">"}

StartsWithAt(str, i, p) ==
    /\ i + Len(p) - 1 <= Len(str)
    /\ SubSeq(str, i, i + Len(p) - 1) = p

\* token.startsWith(p)
StartsWith(str, p) == StartsWithAt(str, 1, p)

\* the control operator that starts at position i, or <<>>; ControlList is
\* the multi-character control operators of the tokenizer, in match order
ControlAt(str, i) ==
    LET ControlList ==
            << <<"|", "|">>, <<"&", "&">>, <<";", ";">>, <<"|", "&">>,
               <<"<", "(">>, <<"<", "<", "<">>, <<">", ">">>, <<">", "&">>,
               <<"<", "&">> >>
        hits == {k \in 1..Len(ControlList) : StartsWithAt(str, i, ControlList[k])}
    IN  IF hits # {}
        THEN ControlList[CHOOSE k \in hits : \A h \in hits : k <= h]
        ELSE IF str[i] \in MetaChars THEN <<str[i]>> ELSE <<>>

\* the end of the bare word starting at i (i - 1 when none starts there); a
\* character of a bare word is not a blank, a quote or a control character
RECURSIVE WordEnd(_, _)
WordEnd(str, i) ==
    IF i <= Len(str) /\ str[i] \notin Spaces \cup {"'", "\""} \cup MetaChars
    THEN WordEnd(str, i + 1)
    ELSE i - 1

\* first index >= i of ch in str, or 0
RECURSIVE IndexOf(_, _, _)
IndexOf(str, ch, i) ==
    IF i > Len(str) THEN 0
    ELSE IF str[i] = ch THEN i
    ELSE IndexOf(str, ch, i + 1)

\* the end of the run of name characters ([\w\d_]) starting at i; the name
\* characters are those of the alphabet of the commands composed here
RECURSIVE NameEnd(_, _)
NameEnd(str, i) ==
    IF /\ i <= Len(str)
       /\ str[i] \in {"l", "s", "r", "m", "f", "x", "S", "U", "B", "_", "0", "1",
                      "2", "3", "4", "5", "6", "7", "8", "9"}
    THEN NameEnd(str, i + 1)
    ELSE i - 1

\* parseEnvVar with an empty environment, for the "$" at position i of a
\* chunk: the text it yields and the position of the last character read
ParseEnvVar(str, i) ==
    IF i + 1 > Len(str)
    THEN [threw |-> FALSE, out |-> <<"$">>, last |-> Len(str)]
    ELSE IF str[i + 1] = "{"
    THEN IF i + 2 <= Len(str) /\ str[i + 2] = "}"
         THEN [threw |-> TRUE, out |-> <<>>, last |-> i]
         ELSE LET close == IndexOf(str, "}", i + 2)
              IN  IF close = 0 THEN [threw |-> TRUE, out |-> <<>>, last |-> i]
                  ELSE [threw |-> FALSE, out |-> <<>>, last |-> close]
    ELSE IF str[i + 1] \in {"*", "@", "#", "?", "$", "!", "_", "-"}
    THEN [threw |-> FALSE, out |-> <<>>, last |-> i + 2]
    ELSE LET e == NameEnd(str, i + 1)
         IN  IF e = Len(str)
             THEN [threw |-> FALSE, out |-> <<>>, last |-> Len(str)]
             ELSE [threw |-> FALSE, out |-> <<>>, last |-> e]

\* the scanner run on one bare-word chunk: its tokens, whether a comment
\* started in it, whether it threw
RECURSIVE ScanWord(_, _, _, _)
ScanWord(str, i, out, isGlob) ==
    IF i > Len(str)
    THEN [threw |-> FALSE, commented |-> FALSE,
          tokens |-> IF isGlob THEN <<[t |-> "op", v |-> <<"g", "l", "o", "b">>]>>
                     ELSE <<[t |-> "str", v |-> out]>>]
    ELSE IF str[i] = "#"
    THEN [threw |-> FALSE, commented |-> TRUE,
          tokens |-> (IF out # <<>> THEN <<[t |-> "str", v |-> out]>> ELSE <<>>)
                     \o <<[t |-> "comment", v |-> <<>>]>>]
    ELSE IF str[i] = "$"
    THEN LET e == ParseEnvVar(str, i)
         IN  IF e.threw THEN [threw |-> TRUE, commented |-> FALSE, tokens |-> <<>>]
             ELSE ScanWord(str, e.last + 1, out \o e.out, isGlob)
    ELSE ScanWord(str, i + 1, Append(out, str[i]), isGlob \/ str[i] \in {"*", "?"})

\* parse(str) of shell-quote for strings without quotes and backslashes:
\* the chunker finds control operators and bare words from left to right,
\* the scanner turns each bare word into tokens; a comment ends the list
RECURSIVE ParseFrom(_, _, _)
ParseFrom(str, i, acc) ==
    IF i > Len(str) THEN [threw |-> FALSE, tokens |-> acc]
    ELSE LET op == ControlAt(str, i) IN
         IF op # <<>>
         THEN ParseFrom(str, i + Len(op), Append(acc, [t |-> "op", v |-> op]))
         ELSE LET e == WordEnd(str, i) IN
              IF e < i THEN ParseFrom(str, i + 1, acc)
              ELSE LET w == ScanWord(SubSeq(str, i, e), 1, <<>>, FALSE) IN
                   IF w.threw THEN [threw |-> TRUE, tokens |-> <<>>]
                   ELSE IF w.commented
                   THEN [threw |-> FALSE, tokens |-> acc \o w.tokens]
                   ELSE ParseFrom(str, e + 1, acc \o w.tokens)

ShellParse(str) == ParseFrom(str, 1, <<>>)

\* str.substring(a, b) and str[i], on 0-based positions
Clamp(n, len) == IF n < 0 THEN 0 ELSE IF n > len THEN len ELSE n

Substring(str, a, b) ==
    LET x == Clamp(a, Len(str))
        y == Clamp(b, Len(str))
    IN  IF x <= y THEN SubSeq(str, x + 1, y) ELSE SubSeq(str, y + 1, x)

CharAt(str, i) == IF i >= 0 /\ i < Len(str) THEN str[i + 1] ELSE "undefined"

RECURSIVE Decimal(_)
Decimal(n) ==
    LET DigitChars == <<"0", "1", "2", "3", "4", "5", "6", "7", "8", "9">> IN
    IF n < 10 THEN <<DigitChars[n + 1]>>
    ELSE Append(Decimal(n \div 10), DigitChars[(n % 10) + 1])

SubPrefix == <<"_", "_", "S", "U", "B">>

\* the inner while loop of extractDollarSubs: from j with depth open
\* parentheses to the position after the matching ")" or the end
RECURSIVE MatchParen(_, _, _)
MatchParen(str, j, depth) ==
    IF j < Len(str) /\ depth > 0
    THEN LET d1 == IF CharAt(str, j) = "(" THEN depth + 1 ELSE depth
             d2 == IF CharAt(str, j) = ")" THEN d1 - 1 ELSE d1
         IN  MatchParen(str, j + 1, d2)
    ELSE [j |-> j, depth |-> depth]

RECURSIVE DollarLoop(_, _, _, _, _)
DollarLoop(str, i, offset, result, subs) ==
    IF i >= Len(str) THEN [subs |-> subs, cleaned |-> result]
    ELSE IF CharAt(str, i) = "$" /\ CharAt(str, i + 1) = "("
    THEN LET m == MatchParen(str, i + 2, 1) IN
         IF m.depth = 0
         THEN LET sub == Substring(str, i + 2, m.j - 1)
                  \* `__SUB${subs.length}__`
                  placeholder == SubPrefix \o Decimal(Len(subs)) \o <<"_", "_">>
                  before == Substring(result, 0, i - offset)
                  after == Substring(result, m.j - offset, Len(result))
              IN  DollarLoop(str, m.j, offset + (m.j - i) - Len(placeholder),
                             before \o placeholder \o after, Append(subs, sub))
         ELSE DollarLoop(str, m.j, offset, result, subs)
    ELSE DollarLoop(str, i + 1, offset, result, subs)

\* extractDollarSubs: the top-level $( ... ) bodies of str, and str with each
\* replaced by its placeholder; an unbalanced $( is left in place
extractDollarSubs(str) == DollarLoop(str, 0, 0, str, <<>>)

\* the loop of collectFromTokens
RECURSIVE CollectLoop(_, _, _, _, _)
CollectLoop(tokens, i, expectingCommand, sawSubstitution, target) ==
    IF i > Len(tokens) THEN target
    ELSE LET token == tokens[i] IN
         IF token.t = "op"
         THEN CollectLoop(tokens, i + 1, TRUE, FALSE, target)
         ELSE IF token.t = "comment"
         THEN CollectLoop(tokens, i + 1, expectingCommand, sawSubstitution, target)
         ELSE IF StartsWith(token.v, SubPrefix)
         THEN CollectLoop(tokens, i + 1, expectingCommand, TRUE, target)
         ELSE LET nonFlag == token.v # <<>> /\ ~StartsWith(token.v, <<"-">>)
                  asCommand == expectingCommand /\ nonFlag
                  asArgument == ~asCommand /\ sawSubstitution /\ nonFlag
                  t1 == IF asCommand \/ asArgument THEN Append(target, token.v)
                        ELSE target
                  afterDashes ==
                      /\ token.v = <<"-", "-">>
                      /\ i + 1 <= Len(tokens)
                      /\ tokens[i + 1].t = "str"
                      /\ ~StartsWith(tokens[i + 1].v, <<"-">>)
                      /\ ~StartsWith(tokens[i + 1].v, SubPrefix)
                  t2 == IF afterDashes THEN Append(t1, tokens[i + 1].v) ELSE t1
              IN  CollectLoop(tokens, i + 1,
                              IF asCommand THEN FALSE ELSE expectingCommand,
                              IF asArgument THEN FALSE ELSE sawSubstitution, t2)

\* collectFromTokens(tokens, targetArray): what it pushes
collectFromTokens(tokens) == CollectLoop(tokens, 1, TRUE, FALSE, <<>>)

\* str.trim().split(/\s+/)[0]
RECURSIVE SkipSpaces(_, _)
SkipSpaces(str, i) ==
    IF i <= Len(str) /\ str[i] \in Spaces THEN SkipSpaces(str, i + 1) ELSE i

RECURSIVE NonSpaceEnd(_, _)
NonSpaceEnd(str, i) ==
    IF i <= Len(str) /\ str[i] \notin Spaces THEN NonSpaceEnd(str, i + 1) ELSE i - 1

FirstWord(str) ==
    LET b == SkipSpaces(str, 1) IN SubSeq(str, b, NonSpaceEnd(str, b))

\* try { collectFromTokens(parse(text)) } catch { first word }
CollectOrFirstWord(text, skipPlaceholder) ==
    LET parsed == ShellParse(text)
        firstWord == FirstWord(text)
    IN  IF ~parsed.threw THEN collectFromTokens(parsed.tokens)
        ELSE IF firstWord # <<>> /\ ~(skipPlaceholder /\ StartsWith(firstWord, SubPrefix))
        THEN <<firstWord>>
        ELSE <<>>

\* the matches of backtickPattern in str from position p, left to right:
\* a backtick, at least one other character, the next backtick
RECURSIVE BacktickMatches(_, _)
BacktickMatches(str, p) ==
    IF p > Len(str) THEN <<>>
    ELSE IF str[p] # Backtick THEN BacktickMatches(str, p + 1)
    ELSE LET q == IndexOf(str, Backtick, p + 1) IN
         IF q > p + 1
         THEN <<[from |-> p, to |-> q]>> \o BacktickMatches(str, q + 1)
         ELSE BacktickMatches(str, p + 1)

RECURSIVE BacktickCommands(_, _, _)
BacktickCommands(str, matches, k) ==
    IF k > Len(matches) THEN <<>>
    ELSE CollectOrFirstWord(SubSeq(str, matches[k].from + 1, matches[k].to - 1), FALSE)
         \o BacktickCommands(str, matches, k + 1)

RECURSIVE RemoveMatches(_, _, _, _)
RemoveMatches(str, matches, k, from) ==
    IF k > Len(matches) THEN SubSeq(str, from, Len(str))
    ELSE SubSeq(str, from, matches[k].from - 1)
         \o RemoveMatches(str, matches, k + 1, matches[k].to + 1)

\* handleBackticks: the commands of each match go to nestedCommands, the
\* matches are cut out of the string
handleBackticks(str) ==
    LET matches == BacktickMatches(str, 1)
    IN  [nested |-> BacktickCommands(str, matches, 1),
         str |-> RemoveMatches(str, matches, 1, 1)]

\* parse + collectFromTokens over a list of texts, outside any try
RECURSIVE CollectAll(_, _)
CollectAll(texts, k) ==
    IF k > Len(texts) THEN [threw |-> FALSE, nested |-> <<>>]
    ELSE LET parsed == ShellParse(texts[k])
             rest == CollectAll(texts, k + 1)
         IN  IF parsed.threw \/ rest.threw THEN [threw |-> TRUE, nested |-> <<>>]
             ELSE [threw |-> FALSE,
                   nested |-> collectFromTokens(parsed.tokens) \o rest.nested]

\* `for (const sub of subs)`: the substitutions inside sub, then sub itself
RECURSIVE ProcessSubs(_, _)
ProcessSubs(subs, k) ==
    IF k > Len(subs) THEN [threw |-> FALSE, nested |-> <<>>]
    ELSE LET subResult == extractDollarSubs(subs[k])
             here == CollectAll(Append(subResult.subs, subResult.cleaned), 1)
             rest == ProcessSubs(subs, k + 1)
         IN  IF here.threw \/ rest.threw THEN [threw |-> TRUE, nested |-> <<>>]
             ELSE [threw |-> FALSE, nested |-> here.nested \o rest.nested]

\* a combine step that keeps every occurrence
DedupeKeepsRepeats(list, k, result) == list

\* `if (cmd && !seen.has(cmd))`
RECURSIVE Dedupe(_, _, _)
Dedupe(list, k, result) ==
    IF k > Len(list) THEN result
    ELSE IF list[k] # <<>> /\ \A n \in 1..Len(result) : result[n] # list[k]
    THEN Dedupe(list, k + 1, Append(result, list[k]))
    ELSE Dedupe(list, k + 1, result)

\* extractCommands(commandString): the returned list, with nestedCommands and
\* outerCommands as they are when the combine step is reached
extractCommands(str) ==
    LET ticks == handleBackticks(str)
        dollars == extractDollarSubs(ticks.str)
        inSubs == ProcessSubs(dollars.subs, 1)
        nestedCommands == ticks.nested \o inSubs.nested
        outerCommands == CollectOrFirstWord(dollars.cleaned, TRUE)
    IN  IF inSubs.threw
        THEN [state |-> "threw", list |-> <<>>, nested |-> <<>>, outer |-> <<>>]
        ELSE [state |-> "returned",
              list |-> Dedupe(nestedCommands \o outerCommands, 1, <<>>),
              nested |-> nestedCommands, outer |-> outerCommands]

Range(list) == {list[k] : k \in 1..Len(list)}

\* an authorizer that checks the extracted names against whatever list
\* the configuration holds
isCommandAllowedWithoutBypass(command, allowlist) ==
    LET cmds == extractCommands(command) IN
    IF cmds.state = "threw" THEN "threw"
    ELSE IF \A cmd \in Range(cmds.list) : cmd \in allowlist.list THEN "true"
    ELSE "false"

hasDangerousPatternsBacktickBlind(str) ==
    LET parsed == ShellParse(str) IN
    IF parsed.threw THEN "true"
    ELSE IF \E k \in 1..Len(parsed.tokens) : parsed.tokens[k].t = "op" THEN "true"
    ELSE "false"

\* CommandParser.hasDangerousPatterns: the backtick test, then parse and the
\* search for a token with `op`, all inside try; catch returns true
hasDangerousPatterns(str) ==
    IF \E k \in 1..Len(str) : str[k] = Backtick THEN "true"
    ELSE LET parsed == ShellParse(str) IN
         IF parsed.threw THEN "true"
         ELSE IF \E k \in 1..Len(parsed.tokens) : parsed.tokens[k].t = "op"
         THEN "true"
         ELSE "false"

\* ConfigManager.isCommandAllowed; `allowlist` is config.allowedCommands,
\* which the configuration may not give
isCommandAllowed(command, allowlist) ==
    IF ~allowlist.given \/ allowlist.list = {} THEN "true"
    ELSE LET cmds == extractCommands(command) IN
         IF cmds.state = "threw" THEN "threw"
         ELSE IF \A cmd \in Range(cmds.list) : cmd \in allowlist.list THEN "true"
         ELSE "false"

(***************************************************************************)
(* The commands handed to the authorizer: up to MaxSegments pieces joined  *)
(* by single blanks.  A piece is a word, a flag, a control operator or a   *)
(* command substitution; `runs` are the command names a substitution runs. *)
(***************************************************************************)
MaxSegments == 3

ls == <<"l", "s">>
rm == <<"r", "m">>

SegmentList ==
    << [kind |-> "word", text |-> ls, runs |-> {}],
       [kind |-> "word", text |-> rm, runs |-> {}],
       \* a program whose name starts like a placeholder
       [kind |-> "word", text |-> <<"_", "_", "S", "U", "B", "x">>, runs |-> {}],
       [kind |-> "flag", text |-> <<"-", "f">>, runs |-> {}],
       \* the separator after which the operands of a command follow
       [kind |-> "flag", text |-> <<"-", "-">>, runs |-> {}],
       [kind |-> "op", text |-> <<"|">>, runs |-> {}],
       [kind |-> "op", text |-> <<"&", "&">>, runs |-> {}],
       [kind |-> "op", text |-> <<";">>, runs |-> {}],
       \* $(rm)
       [kind |-> "sub", text |-> <<"$", "(">> \o rm \o <<")">>, runs |-> {rm}],
       \* $(ls $(rm))
       [kind |-> "sub",
        text |-> <<"$", "(">> \o ls \o <<" ", "$", "(">> \o rm \o <<")", ")">>,
        runs |-> {ls, rm}],
       \* $(ls $(ls $(rm)))
       [kind |-> "sub",
        text |-> <<"$", "(">> \o ls \o <<" ", "$", "(">> \o ls \o <<" ", "$", "(">>
                 \o rm \o <<")", ")", ")">>,
        runs |-> {ls, rm}],
       \* a backtick substitution of rm
       [kind |-> "sub", text |-> <<Backtick>> \o rm \o <<Backtick>>, runs |-> {rm}],
       \* an empty backtick substitution
       [kind |-> "sub", text |-> <<Backtick, Backtick>>, runs |-> {}],
       \* pieces of the commands given to the pattern check: a glob, and ${}
       \* alone, inside $(...) and inside backticks
       [kind |-> "scan", text |-> <<"*">>, runs |-> {}],
       [kind |-> "scan", text |-> <<"$", "{", "}">>, runs |-> {}],
       [kind |-> "scan", text |-> <<"$", "(">> \o ls \o <<" ", "$", "{", "}", ")">>,
        runs |-> {ls}],
       [kind |-> "scan",
        text |-> <<Backtick>> \o ls \o <<" ", "$", "{", "}", Backtick>>,
        runs |-> {ls}] >>

SegmentIds == {k \in 1..Len(SegmentList) : SegmentList[k].kind # "scan"}

\* the pieces of the commands given to the pattern check
ScanSegmentIds ==
    {k \in 1..Len(SegmentList) :
        \/ SegmentList[k].kind = "scan"
        \/ SegmentList[k].text \in {ls, SubPrefix \o <<"x">>, <<"-", "f">>, <<";">>,
                                    <<"$", "(">> \o rm \o <<")">>,
                                    <<Backtick>> \o rm \o <<Backtick>>}}

\* config.allowedCommands: omitted, the empty list, a list
AllowLists ==
    {[given |-> FALSE, list |-> {}], [given |-> TRUE, list |-> {}],
     [given |-> TRUE, list |-> {ls}]}

RECURSIVE Join(_, _)
Join(segs, k) ==
    IF k > Len(segs) THEN <<>>
    ELSE IF k = Len(segs) THEN SegmentList[segs[k]].text
    ELSE SegmentList[segs[k]].text \o <<" ">> \o Join(segs, k + 1)

\* the names the substitutions of the command run
SubstitutionCommands(segs) ==
    UNION {SegmentList[segs[k]].runs : k \in 1..Len(segs)}

\* a command without substitutions: simple commands joined by operators
IsPipeline(segs) == \A k \in 1..Len(segs) : SegmentList[segs[k]].kind # "sub"

\* the command names of a pipeline or chain: the first word that is not a
\* flag, at the start and after each operator
RECURSIVE PipelineCommands(_, _, _)
PipelineCommands(segs, k, atStart) ==
    IF k > Len(segs) THEN {}
    ELSE LET seg == SegmentList[segs[k]] IN
         IF seg.kind = "op" THEN PipelineCommands(segs, k + 1, TRUE)
         ELSE IF seg.kind = "word" /\ atStart
         THEN {seg.text} \cup PipelineCommands(segs, k + 1, FALSE)
         ELSE PipelineCommands(segs, k + 1, atStart)

HasOperator(segs) == \E k \in 1..Len(segs) : SegmentList[segs[k]].kind = "op"

NotCalled == [state |-> "unset", list |-> <<>>, nested |-> <<>>, outer |-> <<>>]

\* CommandParser.extractCommands(commandString)
CallExtractCommands ==
    /\ commands.state = "unset"
    /\ commands' = extractCommands(commandString)
    /\ UNCHANGED <<commandString, segments, allowedCommands, allowed, dangerous>>
    /\ UNCHANGED <<poolVars, calls, execVars, tunnelVars, shutdownVars, toolVars>>

\* configManager.isCommandAllowed(commandString); the calls are made in
\* this order, extractCommands first
CallIsCommandAllowed ==
    /\ commands.state # "unset"
    /\ allowed = "unset"
    /\ allowed' = isCommandAllowed(commandString, allowedCommands)
    /\ UNCHANGED <<commandString, segments, allowedCommands, commands, dangerous>>
    /\ UNCHANGED <<poolVars, calls, execVars, tunnelVars, shutdownVars, toolVars>>

\* CommandParser.hasDangerousPatterns(commandString)
CallHasDangerousPatterns ==
    /\ dangerous = "unset"
    /\ dangerous' = hasDangerousPatterns(commandString)
    /\ UNCHANGED <<commandString, segments, allowedCommands, commands, allowed>>
    /\ UNCHANGED <<poolVars, calls, execVars, tunnelVars, shutdownVars, toolVars>>

\* no command has been handed to the authorizer
ParseIdle ==
    /\ commandString = <<>>
    /\ segments = <<>>
    /\ allowedCommands = [given |-> FALSE, list |-> {}]
    /\ commands = NotCalled
    /\ allowed = "unset"
    /\ dangerous = "unset"

(***************************************************************************)
(* Tool handlers ssh_execute_command and ssh_execute_template              *)
(***************************************************************************)
\* result.replace(new RegExp(TEMPLATE_VARIABLE_PATTERN, 'g'), ..) from
\* position i on: every match, {{name}} or {{name:default}}, is replaced
\* from left to right by the value of the variable, else by the default,
\* else the variable is missing
RECURSIVE ReplaceVariables(_, _, _)
ReplaceVariables(template, i, variables) ==
    LET First(set) == CHOOSE k \in set : \A h \in set : k <= h
        \* [^}:.]+ from position p: the position of its last character
        NameRunEnd(p) ==
            LET stops == {k \in p..Len(template) : template[k] \in {"}", ":", "."}}
            IN  IF stops = {} THEN Len(template) ELSE First(stops) - 1
        \* first position >= p where }} starts, or 0
        IndexOfClose(p) ==
            LET hits == {k \in p..Len(template) :
                            StartsWithAt(template, k, <<"}", "}">>)}
            IN  IF hits = {} THEN 0 ELSE First(hits)
        NoMatch == [found |-> FALSE, name |-> <<>>, hasDefault |-> FALSE,
                    defaultValue |-> <<>>, last |-> 0]
        \* the match of the pattern that starts at position i
        m == IF ~StartsWithAt(template, i, <<"{", "{">>) THEN NoMatch
             ELSE LET e == NameRunEnd(i + 2) IN
                  IF e < i + 2 THEN NoMatch
                  ELSE IF StartsWithAt(template, e + 1, <<"}", "}">>)
                  THEN [found |-> TRUE, name |-> SubSeq(template, i + 2, e),
                        hasDefault |-> FALSE, defaultValue |-> <<>>, last |-> e + 2]
                  ELSE IF e + 1 <= Len(template) /\ template[e + 1] = ":"
                  THEN LET k == IndexOfClose(e + 2) IN
                       IF k = 0 THEN NoMatch
                       ELSE [found |-> TRUE, name |-> SubSeq(template, i + 2, e),
                             hasDefault |-> TRUE,
                             defaultValue |-> SubSeq(template, e + 2, k - 1),
                             last |-> k + 1]
                  ELSE NoMatch
    IN  IF i > Len(template) THEN [missing |-> FALSE, out |-> <<>>]
        ELSE IF ~m.found
        THEN LET rest == ReplaceVariables(template, i + 1, variables)
             IN  [missing |-> rest.missing, out |-> <<template[i]>> \o rest.out]
        ELSE LET rest == ReplaceVariables(template, m.last + 1, variables)
             IN  IF m.name \in DOMAIN variables
                 THEN [missing |-> rest.missing,
                       out |-> variables[m.name] \o rest.out]
                 ELSE IF m.hasDefault
                 THEN [missing |-> rest.missing, out |-> m.defaultValue \o rest.out]
                 ELSE [missing |-> TRUE, out |-> <<>>]

\* substituteVariables(template, variables): throws when a variable without
\* a default has no value
substituteVariables(template, variables) ==
    LET r == ReplaceVariables(template, 1, variables)
    IN  IF r.missing THEN [threw |-> TRUE, command |-> <<>>]
        ELSE [threw |-> FALSE, command |-> r.out]

\* the commands given to ssh_execute_command
ToolCommands ==
    {ls, rm,
     ls \o <<" ", ";", " ">> \o rm,
     ls \o <<" ", "$", "(">> \o rm \o <<")">>,
     <<"$", "(">> \o ls \o <<" ", "$", "{", "}", ")">>}

\* config.commandTemplates, by name: ls {{x}} and {{x:ls}}
CommandTemplates ==
    [list |-> ls \o <<" ", "{", "{", "x", "}", "}">>,
     run |-> <<"{", "{", "x", ":">> \o ls \o <<"}", "}">>]

\* the `variables` argument of ssh_execute_template: none, x = rm,
\* x = -f ; rm
VariableSets ==
    {[n \in {} |-> <<>>],
     [n \in {<<"x">>} |-> rm],
     [n \in {<<"x">>} |-> <<"-", "f", " ", ";", " ">> \o rm]}

\* a connectionName that config.servers does not hold
UnknownServer == 0

ToolIdle ==
    /\ tool = [c \in Calls |-> [name |-> "none", command |-> <<>>,
                                outcome |-> "none", error |-> "none"]]
    /\ sftp = [c \in Calls |-> [state |-> "none", chmod |-> FALSE]]

\* Tool calls arrive in the order of their numbers.
ToolMayStart(c) ==
    /\ tool[c].outcome = "none"
    /\ calls[c].pc = "idle"
    /\ IF c = 1 THEN TRUE ELSE tool[c - 1].outcome # "none"

\* commandTimeout ?? context.configManager.getCommandTimeout()
EffectiveTimeout(t) == IF t \in {"undefined", "null"} THEN "positive" ELSE t

PermittedAlways(command) == "true"

\* context.configManager.isCommandAllowed(command)
Permitted(command) == isCommandAllowed(command, allowedCommands)

\* the handler from the allowlist check on, `ok` being what isCommandAllowed
\* gave: it throws, or (the template handler) looks the server up, and
\* awaits context.sshManager.executeCommand(sshConfig, command, timeout)
CheckThenExecute(c, name, id, command, t, ok) ==
    IF ok # "true"
    THEN /\ tool' = [tool EXCEPT ![c] =
                        [name |-> name, command |-> command, outcome |-> "threw",
                         error |-> IF ok = "false" THEN "notAllowed" ELSE "parser"]]
         /\ UNCHANGED <<poolVars, calls, execVars, sftp>>
    ELSE IF id = UnknownServer
    THEN /\ tool' = [tool EXCEPT ![c] =
                        [name |-> name, command |-> command, outcome |-> "threw",
                         error |-> "server"]]
         /\ UNCHANGED <<poolVars, calls, execVars, sftp>>
    ELSE /\ MayName(id)
         /\ executeCommand(c, id, EffectiveTimeout(t))
         /\ tool' = [tool EXCEPT ![c] = [name |-> name, command |-> command,
                                         outcome |-> "called", error |-> "none"]]
         /\ UNCHANGED sftp

\* a handler that throws before it has a command to check
ThrowEarly(c, name, error) ==
    /\ tool' = [tool EXCEPT ![c] = [name |-> name, command |-> <<>>,
                                    outcome |-> "threw", error |-> error]]
    /\ UNCHANGED <<poolVars, calls, execVars, sftp>>

\* the handler of ssh_execute_command, called with some connectionName,
\* command and commandTimeout: getServer, isCommandAllowed, executeCommand
ExecuteCommandHandler(c) ==
    /\ ToolMayStart(c)
    /\ \E id \in Identities \cup {UnknownServer}, command \in ToolCommands,
          t \in Timeouts :
            IF id = UnknownServer
            THEN ThrowEarly(c, "ssh_execute_command", "server")
            ELSE CheckThenExecute(c, "ssh_execute_command", id, command, t,
                                  Permitted(command))
    /\ UNCHANGED <<parseVars, tunnelVars, shutdownVars>>

\* substituteVariables has returned `expanded`
AfterSubstitution(c, id, t, expanded) ==
    IF expanded.threw
    THEN ThrowEarly(c, "ssh_execute_template", "variables")
    ELSE CheckThenExecute(c, "ssh_execute_template", id, expanded.command, t,
                          Permitted(expanded.command))

\* the handler of ssh_execute_template, called with some connectionName,
\* templateName, variables and commandTimeout: getCommandTemplate,
\* substituteVariables, isCommandAllowed, getServer, executeCommand
ExecuteTemplateHandler(c) ==
    /\ ToolMayStart(c)
    /\ \E id \in Identities \cup {UnknownServer},
          templateName \in DOMAIN CommandTemplates, variables \in VariableSets,
          t \in Timeouts :
            AfterSubstitution(c, id, t,
                substituteVariables(CommandTemplates[templateName], variables))
    /\ UNCHANGED <<parseVars, tunnelVars, shutdownVars>>

InitPool ==
    /\ maxConnections \in 1..MaxPool
    /\ connections = [i \in Identities |-> NoClient]
    /\ sock = [cl \in Clients |-> "none"]
    /\ nextClient = 1
    /\ calls = [c \in Calls |-> IdleCall]
    /\ chan = [c \in Calls |-> NoChan]
    /\ ParseIdle
    /\ TunnelIdle
    /\ ToolIdle

NextPool ==
    \/ \E c \in Calls, id \in Identities : StartAcquire(c, id)
    \/ \E c \in Calls : ReadKeyDone(c)
    \/ \E c \in Calls : ReadKeyFail(c)
    \/ \E c \in Calls : ConnectReady(c)
    \/ \E c \in Calls : ConnectError(c)
    \/ \E c \in Calls : Register(c)
    \/ \E cl \in Clients : SockDies(cl)

SpecPool == InitPool /\ [][NextPool]_vars

\* A manager that has served earlier calls: its registry is empty, or it
\* holds the sessions of the first maxConnections identities, with open
\* sockets.
InitExec ==
    /\ maxConnections = MaxPool
    /\ \E k \in {0, MaxPool} :
          /\ connections = [i \in Identities |->
                               IF i <= k THEN PriorClient(i) ELSE NoClient]
          /\ sock = [cl \in Clients |->
                        IF cl \in {PriorClient(i) : i \in 1..k} THEN "open"
                        ELSE "none"]
    /\ nextClient = 1
    /\ calls = [c \in Calls |-> IdleCall]
    /\ chan = [c \in Calls |-> NoChan]
    /\ ParseIdle
    /\ TunnelIdle
    /\ ToolIdle

NextExec ==
    \/ \E c \in ExecCalls, id \in Identities, t \in Timeouts : StartExecute(c, id, t)
    \/ \E c \in ExecCalls : ReadKeyDone(c)
    \/ \E c \in ExecCalls : ReadKeyFail(c)
    \/ \E c \in ExecCalls : ConnectReady(c)
    \/ \E c \in ExecCalls : ConnectError(c)
    \/ \E c \in ExecCalls : RegisterExecute(c)
    \/ \E c \in ExecCalls : ExecCallbackError(c)
    \/ \E c \in ExecCalls : ExecCallbackStream(c)
    \/ \E c \in ExecCalls : StdoutData(c)
    \/ \E c \in ExecCalls : StderrData(c)
    \/ \E c \in ExecCalls, code \in ExitCodes : ChannelClose(c, code)
    \/ \E c \in ExecCalls : ChannelError(c)
    \/ \E c \in ExecCalls : TimeoutFires(c)

SpecExec == InitExec /\ [][NextExec]_vars

\* A loaded configuration and a command composed of up to MaxSegments pieces
InitParse ==
    /\ maxConnections = MaxPool
    /\ connections = [i \in Identities |-> NoClient]
    /\ sock = [cl \in Clients |-> "none"]
    /\ nextClient = 1
    /\ calls = [c \in Calls |-> IdleCall]
    /\ chan = [c \in Calls |-> NoChan]
    /\ segments \in UNION {[1..n -> SegmentIds] : n \in 0..MaxSegments}
    /\ commandString = Join(segments, 1)
    /\ allowedCommands \in AllowLists
    /\ commands = NotCalled
    /\ allowed = "unset"
    /\ dangerous = "unset"
    /\ TunnelIdle
    /\ ToolIdle

NextParse ==
    \/ CallExtractCommands
    \/ CallIsCommandAllowed

SpecParse == InitParse /\ [][NextParse]_vars

\* A command composed of up to MaxSegments pieces, some of which the
\* tokenizer fails on
InitScan ==
    /\ maxConnections = MaxPool
    /\ connections = [i \in Identities |-> NoClient]
    /\ sock = [cl \in Clients |-> "none"]
    /\ nextClient = 1
    /\ calls = [c \in Calls |-> IdleCall]
    /\ chan = [c \in Calls |-> NoChan]
    /\ segments \in UNION {[1..n -> ScanSegmentIds] : n \in 0..MaxSegments}
    /\ commandString = Join(segments, 1)
    /\ allowedCommands = [given |-> FALSE, list |-> {}]
    /\ commands = NotCalled
    /\ allowed = "unset"
    /\ dangerous = "unset"
    /\ TunnelIdle
    /\ ToolIdle

NextScan ==
    \/ CallExtractCommands
    \/ CallHasDangerousPatterns

SpecScan == InitScan /\ [][NextScan]_vars

\* A manager that holds the session of the identity, and no tunnel
InitTunnel ==
    /\ maxConnections = MaxPool
    /\ connections = [i \in Identities |->
                         IF i \in OpenIdentities THEN PriorClient(i) ELSE NoClient]
    /\ sock = [cl \in Clients |->
                  IF cl \in {PriorClient(i) : i \in OpenIdentities} THEN "open"
                  ELSE "none"]
    /\ nextClient = 1
    /\ calls = [c \in Calls |-> IdleCall]
    /\ chan = [c \in Calls |-> NoChan]
    /\ ParseIdle
    /\ TunnelIdle
    /\ ToolIdle

NextTunnel ==
    \/ \E c \in OpenCalls, id \in OpenIdentities, localPort \in LocalPorts,
          target \in Targets : StartOpen(c, id, localPort, target)
    \/ \E c \in OpenCalls : ReadKeyDone(c)
    \/ \E c \in OpenCalls : ReadKeyFail(c)
    \/ \E c \in OpenCalls : ConnectReady(c)
    \/ \E c \in OpenCalls : ConnectError(c)
    \/ \E c \in OpenCalls : RegisterOpen(c)
    \/ \E c \in OpenCalls : ListenCallback(c)
    \/ \E c \in OpenCalls : ListenError(c)
    \/ \E c \in OpenCalls : Accept(c)
    \/ \E key \in Keys : ClosePortForward(key)
    \/ \E key \in Keys : CloseCallback(key)
    \/ \E cl \in RegisteredClients : SockDies(cl)

SpecTunnel == InitTunnel /\ [][NextTunnel]_vars

\* A manager with a session and one tunnel, opened by call 1 with a fixed or
\* a dynamic local port, whose listener is bound
InitRelay ==
    /\ maxConnections = MaxPool
    /\ connections = [i \in Identities |->
                         IF i \in OpenIdentities THEN PriorClient(i) ELSE NoClient]
    /\ sock = [cl \in Clients |->
                  IF cl \in {PriorClient(i) : i \in OpenIdentities} THEN "open"
                  ELSE "none"]
    /\ nextClient = 1
    /\ calls = [c \in Calls |->
                   IF c = 1
                   THEN [IdleCall EXCEPT !.op = "open", !.id = 1,
                            !.pc = "resolved", !.client = PriorClient(1),
                            !.reused = TRUE]
                   ELSE IdleCall]
    /\ chan = [c \in Calls |-> NoChan]
    /\ ParseIdle
    /\ ToolIdle
    /\ forwardingServers = [key \in Keys |->
                               IF key = <<1, FixedPort, 1>>
                               THEN [server |-> 1, localPort |-> FixedPort]
                               ELSE NoEntry]
    /\ listener = [c \in Calls |->
                      IF c = 1 THEN [state |-> "listening", port |-> FixedPort]
                      ELSE NoListener]
    /\ \E localPort \in LocalPorts :
           opens = [c \in Calls |->
                       IF c = 1
                       THEN [NoOpen EXCEPT !.localPort = localPort, !.target = 1,
                                !.status = "active", !.port = FixedPort]
                       ELSE NoOpen]
    /\ closing = {}
    /\ forwardOut = NoForwardOut
    /\ relays = [r \in 1..MaxRelays |-> NoRelay]
    /\ closeMiss = FALSE
    /\ shutdownLog = <<>>

NextRelay ==
    \/ \E c \in OpenCalls : Accept(c)
    \/ \E r \in 1..MaxRelays, err \in BOOLEAN : ForwardOutCallback(r, err)
    \/ SocketErrorUnhandled
    \/ \E r \in 1..MaxRelays : PipeEnd(r)
    \/ \E r \in 1..MaxRelays, side \in {"socket", "stream"},
          ev \in {"end", "close", "error"} : RelayEvent(r, side, ev)

\* the scheduled end of a piped stream runs in the next tick
SpecRelay ==
    /\ InitRelay
    /\ [][NextRelay]_vars
    /\ \A r \in 1..MaxRelays : WF_vars(PipeEnd(r))

\* execute calls with a timeout that share the session of the manager's
\* tunnel, their commands exiting with code 0 when they exit
NextShared ==
    \/ \E c \in Calls, id \in OpenIdentities : StartExecute(c, id, "positive")
    \/ \E c \in Calls : ExecCallbackError(c)
    \/ \E c \in Calls : ExecCallbackStream(c)
    \/ \E c \in Calls : StdoutData(c)
    \/ \E c \in Calls : StderrData(c)
    \/ \E c \in Calls : ChannelClose(c, "0")
    \/ \E c \in Calls : ChannelError(c)
    \/ \E c \in Calls : TimeoutFires(c)

SpecShared == InitRelay /\ [][NextShared]_vars

\* execute calls, with and without a timeout, on the session that is
\* connected, and what their channels and timers deliver
NextTimed ==
    \/ \E c \in ExecCalls, id \in OpenIdentities, t \in {"undefined", "positive"} :
          StartExecute(c, id, t)
    \/ \E c \in ExecCalls : ExecCallbackError(c)
    \/ \E c \in ExecCalls : ExecCallbackStream(c)
    \/ \E c \in ExecCalls : StdoutData(c)
    \/ \E c \in ExecCalls : StderrData(c)
    \/ \E c \in ExecCalls, code \in ExitCodes : ChannelClose(c, code)
    \/ \E c \in ExecCalls : ChannelError(c)
    \/ \E c \in ExecCalls : TimeoutFires(c)

\* an armed timer expires: the runtime runs the callback of a pending
\* setTimeout once its delay has passed
SpecTimed ==
    /\ InitTunnel
    /\ [][NextTimed]_vars
    /\ \A c \in ExecCalls : WF_vars(TimeoutFires(c))

\* file operations on the session that is connected, and what their SFTP
\* channels and streams deliver
NextSftp ==
    \/ \E c \in 1..MaxFileOps, id \in OpenIdentities,
          op \in {"upload", "download", "list", "delete"} : StartFileOp(c, id, op)
    \/ \E c \in 1..MaxFileOps, outcome \in {"file", "notFile", "stat"} : StatDone(c, outcome)
    \/ \E c \in 1..MaxFileOps, err \in BOOLEAN : SftpCallback(c, err)
    \/ \E c \in 1..MaxFileOps, ev \in {"writeClose", "writeError", "readError"},
          permissions \in BOOLEAN : StreamEvent(c, ev, permissions)
    \/ \E c \in 1..MaxFileOps, err \in BOOLEAN : ChmodCallback(c, err)
    \/ \E c \in 1..MaxFileOps, err \in BOOLEAN : RequestCallback(c, err)

SpecSftp == InitTunnel /\ [][NextSftp]_vars

\* the tunnel engine with shutdown: opens, closes of registered and of
\* unknown keys, disconnectAll
NextShutdown ==
    \/ \E c \in OpenCalls, id \in OpenIdentities, localPort \in LocalPorts,
          target \in Targets : StartOpen(c, id, localPort, target)
    \/ \E c \in OpenCalls : ReadKeyDone(c)
    \/ \E c \in OpenCalls : ReadKeyFail(c)
    \/ \E c \in OpenCalls : ConnectReady(c)
    \/ \E c \in OpenCalls : ConnectError(c)
    \/ \E c \in OpenCalls : RegisterOpen(c)
    \/ \E c \in OpenCalls : ListenCallback(c)
    \/ \E c \in OpenCalls : ListenError(c)
    \/ \E key \in Keys : ClosePortForward(key)
    \/ \E key \in Keys : CloseCallback(key)
    \/ \E key \in Keys : CloseUnknown(key)
    \/ DisconnectAll

\* A loaded configuration with its allowlist, and tool calls
InitTool ==
    /\ maxConnections = MaxPool
    /\ connections = [i \in Identities |-> NoClient]
    /\ sock = [cl \in Clients |-> "none"]
    /\ nextClient = 1
    /\ calls = [c \in Calls |-> IdleCall]
    /\ chan = [c \in Calls |-> NoChan]
    /\ commandString = <<>>
    /\ segments = <<>>
    /\ allowedCommands \in AllowLists
    /\ commands = NotCalled
    /\ allowed = "unset"
    /\ dangerous = "unset"
    /\ TunnelIdle
    /\ ToolIdle

NextTool ==
    \/ \E c \in ExecCalls : ExecuteCommandHandler(c)
    \/ \E c \in ExecCalls : ExecuteTemplateHandler(c)
    \/ \E c \in ExecCalls : ReadKeyDone(c)
    \/ \E c \in ExecCalls : ReadKeyFail(c)
    \/ \E c \in ExecCalls : ConnectReady(c)
    \/ \E c \in ExecCalls : ConnectError(c)
    \/ \E c \in ExecCalls : RegisterExecute(c)
    \/ \E c \in ExecCalls : ExecCallbackError(c)
    \/ \E c \in ExecCalls : ExecCallbackStream(c)

SpecTool == InitTool /\ [][NextTool]_vars

SpecShutdown == InitTunnel /\ [][NextShutdown]_vars

(***************************************************************************)
(* C1: the number of sessions held in the session registry never exceeds   *)
(* maxConnections, whatever acquires are in flight at the same time.       *)
(***************************************************************************)
C1_PoolNeverExceedsMax == Size(connections) <= maxConnections

(***************************************************************************)
(* C2: with the registry at its maximum, an acquire for an identity that   *)
(* has no cached session fails with the capacity error in its synchronous  *)
(* prefix: no client is constructed, no key read or connect is started,    *)
(* and the registry and every socket are left as they were.                *)
(***************************************************************************)
C2_CapacityFailsFast ==
    [][\A c \in Calls :
          (/\ calls[c].pc = "idle"
           /\ calls'[c].pc # "idle"
           /\ Size(connections) >= maxConnections
           /\ connections[calls'[c].id] = NoClient)
          => (/\ calls'[c].pc = "rejected"
              /\ calls'[c].error = "capacity"
              /\ calls'[c].client = NoClient
              /\ nextClient' = nextClient
              /\ connections' = connections
              /\ sock' = sock)]_vars

C2_Witness ==
    \E c \in Calls :
        /\ calls[c].pc = "rejected"
        /\ calls[c].error = "capacity"
        /\ connections[calls[c].id] = NoClient
        /\ Size(connections) = maxConnections

(***************************************************************************)
(* C3: an acquire for an identity whose cached client has an open socket   *)
(* returns that client, constructs no new client and never raises the      *)
(* capacity error, also when the registry is at its maximum.               *)
(***************************************************************************)
C3_ReuseCachedSession ==
    [][\A c \in Calls :
          (/\ calls[c].pc = "idle"
           /\ calls'[c].pc # "idle"
           /\ connections[calls'[c].id] # NoClient
           /\ sock[connections[calls'[c].id]] = "open")
          => (/\ calls'[c].pc = "resolved"
              /\ calls'[c].reused
              /\ calls'[c].client = connections[calls'[c].id]
              /\ calls'[c].error = "none"
              /\ nextClient' = nextClient
              /\ connections' = connections)]_vars

C3_Witness ==
    \E c \in Calls :
        /\ calls[c].reused
        /\ calls[c].pc = "resolved"
        /\ calls[c].client = connections[calls[c].id]
        /\ Size(connections) >= maxConnections

(***************************************************************************)
(* C4: an execute call whose exec channel was opened is settled exactly    *)
(* once, by the first of channel close, channel error and timeout expiry;  *)
(* no later event settles it again or changes its outcome or its result.   *)
(***************************************************************************)
ExecSettled(c) == chan[c].open /\ calls[c].pc \in {"resolved", "rejected"}

C4_SettledByFirstEvent(c) ==
    /\ chan[c].settles <= 1
    /\ (chan[c].first = "none") = (calls[c].pc = "pending")
    /\ chan[c].first # "none" => chan[c].settles = 1
    /\ chan[c].first = "close" =>
          /\ calls[c].pc = "resolved"
          /\ chan[c].result.exitCode = chan[c].firstCode
          /\ chan[c].result.timedOut = "undefined"
    /\ chan[c].first = "error" => calls[c].pc = "rejected"
    /\ chan[c].first = "timeout" =>
          /\ calls[c].pc = "resolved"
          /\ chan[c].result.timedOut = "true"

C4_SettledExactlyOnce ==
    /\ [](\A c \in ExecCalls : chan[c].open => C4_SettledByFirstEvent(c))
    /\ [][\A c \in ExecCalls :
             ExecSettled(c) => /\ calls'[c].pc = calls[c].pc
                               /\ chan'[c].result = chan[c].result
                               /\ chan'[c].settles = chan[c].settles]_vars

\* all three events have occurred, the timeout first
C4_Witness ==
    \E c \in ExecCalls :
        /\ chan[c].first = "timeout"
        /\ chan[c].errorEmitted
        /\ chan[c].closeEmitted
        /\ chan[c].settles = 1

(***************************************************************************)
(* C5: when the timeout expires before the channel closes or errors, the   *)
(* channel is force-closed and the call resolves (does not reject) with    *)
(* exitCode = null, timedOut = true and, as stdout and stderr, exactly the *)
(* data each stream had delivered before the expiry.                       *)
(***************************************************************************)
C5_TimeoutResolvesWithPartialOutput ==
    \A c \in ExecCalls :
        chan[c].first = "timeout" =>
            /\ chan[c].forceClosed
            /\ calls[c].pc = "resolved"
            /\ chan[c].result = [stdout |-> chan[c].atExpiry.stdout,
                                 stderr |-> chan[c].atExpiry.stderr,
                                 exitCode |-> Null, timedOut |-> "true"]

\* output arrived on the streams before and after the expiry
C5_Witness ==
    \E c \in ExecCalls :
        /\ chan[c].first = "timeout"
        /\ calls[c].pc = "resolved"
        /\ Len(chan[c].result.stdout) + Len(chan[c].result.stderr) > 0
        /\ ChunksSeen(chan[c]) > Len(chan[c].result.stdout) + Len(chan[c].result.stderr)

(***************************************************************************)
(* C6: with a non-empty allowlist, isCommandAllowed returns true exactly   *)
(* when every name extractCommands returns for the command is on the       *)
(* allowlist; a pipeline or chain with a command that is not on the        *)
(* allowlist is rejected.                                                  *)
(***************************************************************************)
C6_AllowedIffEveryCommandAllowlisted ==
    (allowedCommands.list # {} /\ allowed # "unset") =>
        /\ commands.state = "returned" =>
              (allowed = "true") =
                  (\A cmd \in Range(commands.list) : cmd \in allowedCommands.list)
        /\ (/\ IsPipeline(segments)
            /\ HasOperator(segments)
            /\ \E cmd \in PipelineCommands(segments, 1, TRUE) :
                  cmd \notin allowedCommands.list)
           => allowed = "false"

(***************************************************************************)
(* C7: every command that a substitution of the command runs, $(...) or    *)
(* backtick, at any depth, is in the result of extractCommands; a command  *)
(* whose substitution runs a name that is not on the allowlist is not      *)
(* allowed.                                                                *)
(***************************************************************************)
C7_SubstitutionCommandsExtracted ==
    /\ commands.state # "unset" =>
          /\ commands.state = "returned"
          /\ \A cmd \in SubstitutionCommands(segments) : cmd \in Range(commands.list)
    /\ (/\ allowedCommands.list # {}
        /\ allowed # "unset"
        /\ \E cmd \in SubstitutionCommands(segments) : cmd \notin allowedCommands.list)
       => allowed = "false"

DynamicTunnel(c) ==
    /\ calls[c].op = "open"
    /\ opens[c].localPort = 0
    /\ opens[c].status = "active"
    /\ listener[c].state = "listening"

C9_DynamicOpenCreatesNewTunnel ==
    /\ [][\A c \in Calls :
             (/\ calls[c].op = "open"
              /\ opens[c].localPort = 0
              /\ calls[c].pc # "resolved"
              /\ calls'[c].pc = "resolved") =>
                 LET key == ForwardKey(calls[c].id, opens'[c].port, opens[c].target)
                 IN  /\ opens'[c].status = "active"
                     /\ listener[c].state = "listening"
                     /\ ~Has(key)
                     /\ forwardingServers'[key].server = c]_vars
    /\ [](\A c, d \in Calls :
             (/\ c # d
              /\ DynamicTunnel(c)
              /\ DynamicTunnel(d)
              /\ calls[c].id = calls[d].id
              /\ opens[c].target = opens[d].target) =>
                 /\ opens[c].port # opens[d].port
                 /\ listener[c].port # listener[d].port)

C11_CloseRemovesExactlyThatTunnel ==
    [][\A key \in Keys :
          (key \in closing /\ key \notin closing') =>
              /\ Has(key)
              /\ listener[forwardingServers[key].server].state = "closed"
              /\ forwardingServers'[key] = NoEntry
              /\ \A info \in listPortForwards' :
                    <<info.sshHost, info.localPort, info.remote>> # key
              /\ \A other \in Keys \ {key} :
                    forwardingServers'[other] = forwardingServers[other]]_vars

(***************************************************************************)
(* C12: a close call for a key that is not in the tunnel registry resolves *)
(* at once, without error; it changes neither the tunnel registry nor the  *)
(* session registry and closes no listener.                                *)
(***************************************************************************)
C12_CloseOfUnknownKeyIsNoOp ==
    [][(~closeMiss /\ closeMiss') =>
          /\ UNCHANGED <<forwardingServers, connections, listener, sock, closing>>
          /\ UNCHANGED calls]_vars

\* a close of an unknown key has resolved while a tunnel is registered
C12_Witness ==
    /\ closeMiss
    /\ \E key \in Keys : Has(key) /\ listener[forwardingServers[key].server].state = "listening"

(***************************************************************************)
(* C14: the result of extractCommands is the names found inside the        *)
(* substitutions followed by the outer names, without a name twice, each   *)
(* name at the position of its first occurrence in that concatenation; the *)
(* command ls $(rm) gives [rm, ls] and ls && ls gives [ls].                *)
(***************************************************************************)
C14_NestedFirstWithoutRepeats ==
    commands.state = "returned" =>
        LET all == commands.nested \o commands.outer
            list == commands.list
            FirstAt(name) ==
                CHOOSE k \in 1..Len(all) :
                    all[k] = name /\ \A j \in 1..(k - 1) : all[j] # name
        IN  /\ \A i, j \in 1..Len(list) : i # j => list[i] # list[j]
            /\ Range(list) = Range(all) \ {<<>>}
            /\ \A i, j \in 1..Len(list) :
                  i < j => FirstAt(list[i]) < FirstAt(list[j])
            /\ commandString = ls \o <<" ", "$", "(">> \o rm \o <<")">>
                  => list = <<rm, ls>>
            /\ commandString = ls \o <<" ", "&", "&", " ">> \o ls
                  => list = <<ls>>

\* a name of a substitution that is also an outer name: ls $(ls $(rm))
C14_Witness ==
    /\ commands.state = "returned"
    /\ commands.list = <<rm, ls>>
    /\ commands.nested = <<rm, ls>>
    /\ commands.outer = <<ls>>

(***************************************************************************)
(* C15: when the listener of an open call fails to bind, the call rejects  *)
(* with the listener's error and the step adds no tunnel: the registry and *)
(* the list are unchanged, and no entry ever refers to the failed listener.*)
(***************************************************************************)
C15_BindFailureRejectsAndAddsNothing ==
    /\ [](\A c \in OpenCalls :
            listener[c].state = "failed" =>
                /\ calls[c].pc \in {"listen", "rejected"}
                /\ calls[c].pc = "rejected" => calls[c].error = "listen"
                /\ \A key \in Keys : forwardingServers[key].server # c)
    /\ [][\A c \in OpenCalls :
            (listener[c].state = "failed" /\ calls[c].pc # calls'[c].pc) =>
                /\ calls'[c].pc = "rejected"
                /\ forwardingServers' = forwardingServers
                /\ listPortForwards' = listPortForwards]_vars

\* a call rejected by a bind failure while another tunnel is listed
C15_Witness ==
    \E c \in OpenCalls :
        /\ listener[c].state = "failed"
        /\ calls[c].pc = "rejected"
        /\ calls[c].error = "listen"
        /\ listPortForwards # {}

(***************************************************************************)
(* C16: the executor is only ever running for a command that               *)
(* isCommandAllowed accepts; a handler whose command (for a template, the  *)
(* expanded command) isCommandAllowed does not accept throws, and the step *)
(* in which it throws acquires no session and opens no channel.            *)
(***************************************************************************)
C16_RejectedCommandNeverReachesExecutor ==
    /\ [](\A c \in ExecCalls :
            /\ calls[c].op = "execute" =>
                  /\ tool[c].outcome = "called"
                  /\ isCommandAllowed(tool[c].command, allowedCommands) = "true"
            /\ (/\ tool[c].outcome # "none"
                /\ tool[c].error # "variables"
                /\ isCommandAllowed(tool[c].command, allowedCommands) # "true")
                  => /\ tool[c].outcome = "threw"
                     /\ tool[c].error \in {"notAllowed", "parser", "server"}
                     /\ calls[c] = IdleCall
                     /\ chan[c] = NoChan)
    /\ [][\A c \in ExecCalls :
            (tool[c].outcome = "none" /\ tool'[c].outcome = "threw")
                => UNCHANGED <<poolVars, calls, execVars>>]_vars

\* both handlers have thrown for a command the allowlist rejects, and the
\* template handler for an expanded command
C16_Witness ==
    /\ allowedCommands.list # {}
    /\ \E c \in ExecCalls :
          /\ tool[c].name = "ssh_execute_template"
          /\ tool[c].outcome = "threw"
          /\ tool[c].error = "notAllowed"
          /\ tool[c].command = ls \o <<" ", "-", "f", " ", ";", " ">> \o rm

(***************************************************************************)
(* C17: when config.allowedCommands is omitted or is the empty list,       *)
(* isCommandAllowed returns true for every command, pipelines and          *)
(* substitutions included.                                                 *)
(***************************************************************************)
C17_NoAllowlistAllowsEverything ==
    (allowed # "unset" /\ (~allowedCommands.given \/ allowedCommands.list = {}))
        => allowed = "true"

\* the empty list has allowed a pipeline whose substitution runs rm
C17_Witness ==
    /\ allowedCommands = [given |-> TRUE, list |-> {}]
    /\ allowed = "true"
    /\ HasOperator(segments)
    /\ rm \in SubstitutionCommands(segments)

(***************************************************************************)
(* C18: hasDangerousPatterns returns true exactly when the command holds a *)
(* backtick, or the tokenizer fails on it, or the tokenizer yields an      *)
(* operator token for it; a command of plain words gives false, a command  *)
(* with a control operator gives true.                                     *)
(***************************************************************************)
C18_DangerousIffBacktickOperatorOrFailure ==
    dangerous # "unset" =>
        LET parsed == ShellParse(commandString)
            kinds == {SegmentList[segments[k]].kind : k \in 1..Len(segments)}
        IN  /\ dangerous \in {"true", "false"}
            /\ (dangerous = "true") =
                  (\/ \E k \in 1..Len(commandString) : commandString[k] = Backtick
                   \/ parsed.threw
                   \/ \E k \in 1..Len(parsed.tokens) : parsed.tokens[k].t = "op")
            /\ kinds \subseteq {"word", "flag"} => dangerous = "false"
            /\ "op" \in kinds => dangerous = "true"

\* a backtick substitution among plain words, on which the tokenizer
\* neither fails nor yields an operator
C18_Witness ==
    /\ dangerous = "true"
    /\ \E k \in 1..Len(commandString) : commandString[k] = Backtick
    /\ ~ShellParse(commandString).threw
    /\ \A k \in 1..Len(ShellParse(commandString).tokens) :
          ShellParse(commandString).tokens[k].t # "op"

(***************************************************************************)
(* C19: extractCommands and hasDangerousPatterns return a value for every  *)
(* command; neither throws, whether the tokenizer fails on the outer       *)
(* string, on the content of a $(...) substitution or on the content of a  *)
(* backtick substitution.                                                  *)
(***************************************************************************)
C19_NeverThrows ==
    /\ commands.state # "threw"
    /\ dangerous # "threw"

(***************************************************************************)
(* C20: when the tokenizer fails on the outer string, extractCommands      *)
(* returns exactly one name, the first blank-delimited token of the        *)
(* command as it was given, and never the empty list.                      *)
(***************************************************************************)
C20_FallbackIsFirstTokenOfInput ==
    LET processedString ==
            extractDollarSubs(handleBackticks(commandString).str).cleaned
    IN  (commands.state = "returned" /\ ShellParse(processedString).threw)
            => /\ commands.list # <<>>
               /\ commands.list = <<FirstWord(commandString)>>

(***************************************************************************)
(* C21: no name in the result of extractCommands starts with a dash,       *)
(* whether it was found by the token walk, by the fallback for backtick    *)
(* content or by the fallback for the outer string.                        *)
(***************************************************************************)
C21_NoNameStartsWithDash ==
    commands.state = "returned" =>
        \A k \in 1..Len(commands.list) : ~StartsWith(commands.list[k], <<"-">>)

(***************************************************************************)
(* C22: an acquire that finds a cached client whose socket is not open     *)
(* removes the entry and does not return that client: it goes on to        *)
(* construct a new client or fails, and when it resolves, the client it    *)
(* returns is the new one, registered under the same identity.  A call is  *)
(* handed a cached client only while that client's socket is open.         *)
(***************************************************************************)
C22_StaleSessionIsEvicted ==
    [][\A c \in Calls :
          /\ (/\ calls[c].pc = "idle"
              /\ calls'[c].pc # "idle"
              /\ connections[calls'[c].id] # NoClient
              /\ sock[connections[calls'[c].id]] # "open")
             => (/\ connections'[calls'[c].id] = NoClient
                 /\ ~calls'[c].reused
                 /\ calls'[c].client # connections[calls'[c].id]
                 /\ calls'[c].pc \in {"readKey", "rejected"}
                 /\ calls'[c].pc = "readKey" => calls'[c].client = nextClient)
          /\ (~calls[c].reused /\ calls'[c].reused)
             => (/\ calls'[c].client = connections[calls'[c].id]
                 /\ sock[calls'[c].client] = "open")
          /\ (/\ calls[c].op = "acquire"
              /\ ~calls[c].reused
              /\ calls[c].pc # "resolved"
              /\ calls'[c].pc = "resolved")
             => (/\ calls[c].pc = "ready"
                 /\ calls'[c].client = calls[c].client
                 /\ connections'[calls[c].id] = calls[c].client)]_vars

\* a call has resolved with a new client, registered under the identity whose
\* earlier client, returned by an earlier call, has lost its socket
C22_Witness ==
    \E c, d \in Calls :
        /\ calls[c].pc = "resolved"
        /\ ~calls[c].reused
        /\ connections[calls[c].id] = calls[c].client
        /\ calls[d].pc = "resolved"
        /\ calls[d].id = calls[c].id
        /\ calls[d].client < calls[c].client
        /\ sock[calls[d].client] = "destroyed"

(***************************************************************************)
(* C23: a client enters the session registry only in a step taken by a     *)
(* call whose client has signalled ready.  When the transport emits error  *)
(* while connecting, the call is rejected with that error in the same      *)
(* step, no further client is constructed for the call, the rejection is   *)
(* final, and the failed client is not and never becomes an entry of the   *)
(* registry.                                                               *)
(***************************************************************************)
C23_RegisteredOnlyAfterReady ==
    /\ [](\A c \in Calls :
             (calls[c].pc = "rejected" /\ calls[c].error = "connect")
             => (/\ sock[calls[c].client] = "destroyed"
                 /\ \A i \in Identities : connections[i] # calls[c].client))
    /\ [][/\ \A i \in Identities :
               (connections'[i] # connections[i] /\ connections'[i] # NoClient)
               => \E c \in Calls : /\ calls[c].pc = "ready"
                                   /\ calls[c].id = i
                                   /\ calls[c].client = connections'[i]
                                   /\ calls'[c].pc = "resolved"
          /\ \A c \in Calls :
               /\ (calls[c].pc = "connecting" /\ calls'[c].pc = "rejected")
                  => (/\ calls'[c].error = "connect"
                      /\ calls'[c].client = calls[c].client
                      /\ nextClient' = nextClient
                      /\ connections' = connections)
               /\ calls[c].pc = "rejected" => calls'[c] = calls[c]]_vars

C23_Witness ==
    \E c \in Calls :
        /\ calls[c].pc = "rejected"
        /\ calls[c].error = "connect"
        /\ connections[calls[c].id] = NoClient
        /\ nextClient = calls[c].client + 1

(***************************************************************************)
(* C24: in every relay, once the socket or the forwarded channel has       *)
(* emitted end, close or error, the other side is ended or destroyed: in   *)
(* the same step when the handlers saw the event, and in the next tick     *)
(* when the socket had ended before it was piped.  No relay stays with     *)
(* exactly one side open.                                                  *)
(***************************************************************************)
RelayDown(state) == state \notin {"none", "open"}

C24_RelayTearsDownBothSides ==
    /\ [](\A r \in 1..MaxRelays :
             (relays[r].side.stream # "none" /\ ~relays[r].pipeEnd)
             => (RelayDown(relays[r].side.socket)
                 <=> RelayDown(relays[r].side.stream)))
    /\ \A r \in 1..MaxRelays :
          /\ (relays[r].side.stream # "none" /\ RelayDown(relays[r].side.socket))
             ~> RelayDown(relays[r].side.stream)
          /\ RelayDown(relays[r].side.stream)
             ~> RelayDown(relays[r].side.socket)

\* a relay whose socket has emitted an event and whose stream was ended or
\* destroyed for it, next to a relay whose stream was ended by the pipe
C24_Witness ==
    \E r, q \in 1..MaxRelays :
        /\ relays[r].side.socket \in {"end", "error"}
        /\ relays[r].side.stream \in {"ended", "destroyed"}
        /\ relays[q].side.socket = "closed"
        /\ relays[q].side.stream = "ended"

(***************************************************************************)
(* C25: an execute call made with commandTimeout undefined never has a     *)
(* timer and never yields timedOut = true; an execute call made with a     *)
(* commandTimeout that is neither undefined nor a finite positive number   *)
(* is rejected in its first step, which acquires no session and opens no   *)
(* channel.                                                                *)
(***************************************************************************)
C25_NoTimerOrEarlyReject ==
    /\ [](\A c \in ExecCalls :
             (calls[c].op = "execute" /\ ~calls[c].timer)
             => (/\ ~chan[c].timeoutId
                 /\ chan[c].first # "timeout"
                 /\ calls[c].pc = "resolved"
                        => (/\ chan[c].first = "close"
                            /\ chan[c].result.timedOut # "true")))
    /\ [][\A c \in ExecCalls, id \in Identities :
             /\ StartExecute(c, id, "undefined") => ~calls'[c].timer
             /\ \A t \in Timeouts \ {"undefined", "positive"} :
                   StartExecute(c, id, t)
                   => (/\ calls'[c].pc = "rejected"
                       /\ calls'[c].error = "commandTimeout"
                       /\ calls'[c].client = NoClient
                       /\ UNCHANGED poolVars
                       /\ UNCHANGED chan)]_vars

(***************************************************************************)
(* C26: the step in which a call's timer expires force-closes that call's  *)
(* channel only: the session registry, every socket, the tunnel registry,  *)
(* every listener and every other call and channel are as before.  The     *)
(* session of a timed-out call is still registered, and an acquire for its *)
(* identity that starts afterwards returns that same client.               *)
(***************************************************************************)
C26_TimeoutClosesOnlyItsChannel ==
    /\ [](\A c \in Calls :
             chan[c].forceClosed => connections[calls[c].id] = calls[c].client)
    /\ [][\A c \in Calls :
             /\ (~chan[c].forceClosed /\ chan'[c].forceClosed)
                => (/\ UNCHANGED <<connections, sock, nextClient>>
                    /\ UNCHANGED <<forwardingServers, listener, closing, relays>>
                    /\ \A d \in Calls \ {c} :
                          chan'[d] = chan[d] /\ calls'[d] = calls[d])
             /\ \A d \in Calls :
                   (/\ chan[c].forceClosed
                    /\ calls[d].pc = "idle"
                    /\ calls'[d].pc # "idle"
                    /\ calls'[d].id = calls[c].id)
                   => (calls'[d].reused /\ calls'[d].client = calls[c].client)]_vars

\* a call has timed out, its session and the tunnel are registered, and a
\* later call has been handed the same client
C26_Witness ==
    \E c, d \in Calls :
        /\ c < d
        /\ chan[c].first = "timeout"
        /\ chan[c].forceClosed
        /\ calls[d].reused
        /\ calls[d].pc = "execRequested"
        /\ calls[d].client = calls[c].client
        /\ connections[calls[c].id] = calls[c].client
        /\ \E key \in Keys : Has(key)

C28_OneLiveTransportPerIdentity ==
    \A c \in Calls :
        (/\ calls[c].pc = "resolved"
         /\ calls[c].client # NoClient
         /\ sock[calls[c].client] = "open")
        => connections[calls[c].id] = calls[c].client

(***************************************************************************)
(* C29: an open call that reaches its dedupe check while another open call *)
(* for the same non-dynamic key has bound its listener and is waiting for  *)
(* the listen callback answers already_active and creates no listener, so  *)
(* that no second listener is created or bound for the key.                *)
(***************************************************************************)
C29_ConcurrentOpenCreatesOneListener ==
    [][\A c, d \in OpenCalls :
          (/\ c # d
           /\ calls[c].pc = "listen"
           /\ listener[c].state = "listening"
           /\ opens[c].localPort # 0
           /\ calls[d].pc \in {"idle", "ready"}
           /\ calls'[d].pc \in {"listen", "resolved"}
           /\ calls'[d].id = calls[c].id
           /\ opens'[d].localPort = opens[c].localPort
           /\ opens'[d].target = opens[c].target)
          => (/\ opens'[d].status = "already_active"
              /\ calls'[d].pc = "resolved"
              /\ listener'[d] = NoListener)]_vars

(***************************************************************************)
(* C30: the step in which channel close or channel error settles an        *)
(* execute call clears the call's timer; from then on the timer is never   *)
(* pending again, its handler never runs and the channel is never          *)
(* force-closed.                                                           *)
(***************************************************************************)
C30_SettlementCancelsTimer ==
    /\ [](\A c \in ExecCalls :
             chan[c].first \in {"close", "error"}
             => (/\ chan[c].settled
                 /\ ~chan[c].timeoutId
                 /\ ~chan[c].forceClosed
                 /\ chan[c].atExpiry = Null))
    /\ [][\A c \in ExecCalls :
             (chan[c].timeoutId /\ chan'[c].first \in {"close", "error"})
             => (chan[c].first = "none" /\ ~chan'[c].timeoutId)]_vars

\* a call whose timer was armed has been settled by the channel's error, and
\* the channel has closed since
C30_Witness ==
    \E c \in ExecCalls :
        /\ calls[c].timer
        /\ chan[c].first = "error"
        /\ chan[c].closeEmitted
        /\ ~chan[c].timeoutId
        /\ ~chan[c].forceClosed

(***************************************************************************)
(* C31: an execute call that was made with a timeout and whose exec        *)
(* channel has been opened is eventually settled, resolved or rejected,    *)
(* whatever the channel does, also when it never closes and never errors.  *)
(***************************************************************************)
C31_TimedExecuteEventuallySettles ==
    \A c \in ExecCalls :
        (calls[c].timer /\ chan[c].open)
        ~> (calls[c].pc \in {"resolved", "rejected"} /\ chan[c].settles = 1)

\* a call settled by its timer on a channel that has emitted neither close
\* nor error
C31_Witness ==
    \E c \in ExecCalls :
        /\ calls[c].timer
        /\ calls[c].pc = "resolved"
        /\ chan[c].first = "timeout"
        /\ ~chan[c].closeEmitted
        /\ ~chan[c].errorEmitted

(***************************************************************************)
(* C32: a failure of one inbound connection (its channel open fails, or    *)
(* its socket or channel errors or closes) changes that connection's       *)
(* relay only: in every step the registry and every listener stay as they  *)
(* are, no call changes its outcome, and at most one relay changes.        *)
(***************************************************************************)
C32_FailureStaysInItsConnection ==
    [][/\ forwardingServers' = forwardingServers
       /\ listener' = listener
       /\ calls' = calls
       /\ \A r, q \in 1..MaxRelays :
              r # q => (relays'[r] = relays[r] \/ relays'[q] = relays[q])]_vars

(***************************************************************************)
(* C33: every tunnel that listPortForwards reports, and every tunnel for   *)
(* which an open call answers already_active, has a listener that is       *)
(* listening, also while a close of the tunnel waits for its callback.     *)
(***************************************************************************)
C33_ReportedTunnelsAreListening ==
    /\ [](\A key \in Keys :
             (\E info \in listPortForwards :
                 /\ info.sshHost = key[1]
                 /\ info.localPort = key[2]
                 /\ info.remote = key[3])
             => listener[forwardingServers[key].server].state = "listening")
    /\ [][\A c \in OpenCalls :
             (opens[c].status = "none" /\ opens'[c].status = "already_active")
             => LET key == ForwardKey(calls'[c].id, opens'[c].localPort,
                                      opens'[c].target)
                IN  listener[forwardingServers[key].server].state = "listening"]_vars

(***************************************************************************)
(* C34: every tunnel in the registry opens its relay channels on the       *)
(* session that is registered for the tunnel's identity: the client that   *)
(* the tunnel's connection listener holds is the registered client of the  *)
(* identity, which therefore has one.                                      *)
(***************************************************************************)
C34_TunnelUsesRegisteredSession ==
    \A key \in Keys :
        Has(key) => /\ connections[key[1]] # NoClient
                    /\ connections[key[1]] = calls[forwardingServers[key].server].client

(***************************************************************************)
(* C35: once disconnectAll has run, the session registry and the tunnel    *)
(* registry stay empty and no transport and no listener is open, whatever  *)
(* the connects and binds that were in flight deliver afterwards.          *)
(***************************************************************************)
C35_NothingRegistersAfterDisconnectAll ==
    shutdownLog # <<>>
    => /\ \A i \in Identities : connections[i] = NoClient
       /\ \A key \in Keys : ~Has(key)
       /\ \A c \in Calls :
              (calls[c].pc # "idle" /\ calls[c].client # NoClient)
              => sock[calls[c].client] # "open"
       /\ \A c \in Calls : listener[c].state # "listening"

(***************************************************************************)
(* C36: with an allowlist that is given and not empty, a command that is   *)
(* not blank and from which extractCommands extracted no name is not       *)
(* allowed.                                                                *)
(***************************************************************************)
C36_NoNameIsNotAllowed ==
    (/\ allowed # "unset"
     /\ allowedCommands.given
     /\ allowedCommands.list # {}
     /\ \E k \in 1..Len(commandString) : commandString[k] \notin Spaces
     /\ commands.state # "threw"
     /\ commands.list = <<>>)
    => allowed # "true"

(***************************************************************************)
(* C37: the token walk over the command, its substitutions replaced by     *)
(* placeholders, extracts exactly these words: the first word that is not  *)
(* a flag at the start and after each operator, a word that is not a flag  *)
(* directly after "--", and the first word that is not a flag after a      *)
(* placeholder of the same simple command.                                 *)
(***************************************************************************)
OuterTokens ==
    ShellParse(extractDollarSubs(handleBackticks(commandString).str).cleaned)

IsPlaceholder(tokens, i) ==
    tokens[i].t = "str" /\ StartsWith(tokens[i].v, SubPrefix)

IsNonFlagWord(tokens, i) ==
    /\ tokens[i].t = "str"
    /\ tokens[i].v # <<>>
    /\ ~StartsWith(tokens[i].v, <<"-">>)
    /\ ~StartsWith(tokens[i].v, SubPrefix)

NamedByTheWalk(tokens) ==
    {tokens[i].v : i \in
        {i \in 1..Len(tokens) :
            /\ IsNonFlagWord(tokens, i)
            /\ \/ \A j \in 1..(i - 1) :
                      IsNonFlagWord(tokens, j)
                      => \E k \in (j + 1)..(i - 1) : tokens[k].t = "op"
               \/ i > 1 /\ tokens[i - 1].t = "str" /\ tokens[i - 1].v = <<"-", "-">>
               \/ \E j \in 1..(i - 1) :
                      /\ IsPlaceholder(tokens, j)
                      /\ \A k \in (j + 1)..(i - 1) :
                             tokens[k].t # "op" /\ ~IsNonFlagWord(tokens, k)}}

C37_WalkExtractsCommandPositions ==
    (commands.state = "returned" /\ ~OuterTokens.threw)
    => Range(commands.outer) = NamedByTheWalk(OuterTokens.tokens)

(***************************************************************************)
(* C38: a file operation that obtained an SFTP channel and has completed,  *)
(* by success or by failure, has ended the channel; the session of the     *)
(* identity stays registered with its transport open, and every file       *)
(* operation that reached getConnection was handed that session.           *)
(***************************************************************************)
C38_FileOpEndsItsChannel ==
    /\ \A c \in Calls :
          (calls[c].op \in {"upload", "download", "list", "delete"}
              /\ calls[c].pc \in {"resolved", "rejected"})
          => sftp[c].state \in {"none", "ended"}
    /\ \A c \in Calls : sftp[c].state # "none" => calls[c].pc # "sftpRequested"
    /\ \A i \in OpenIdentities :
          connections[i] = PriorClient(i) /\ sock[connections[i]] = "open"
    /\ \A c \in Calls :
          calls[c].pc \in {"sftpRequested", "transfer", "request", "chmod"}
          => (calls[c].reused /\ calls[c].client = connections[calls[c].id])

\* a list that failed in readdir and ended its channel, and a later upload
\* on the same session that succeeded and ended its own
C38_Witness ==
    \E d, e \in Calls :
        /\ calls[d].pc = "rejected" /\ calls[d].error = "readdir"
        /\ sftp[d].state = "ended"
        /\ e > d
        /\ calls[e].op = "upload" /\ calls[e].reused
        /\ calls[e].client = calls[d].client
        /\ calls[e].pc = "resolved" /\ calls[e].error = "none"
        /\ sftp[e].state = "ended"

(***************************************************************************)
(* C13: disconnectAll starts the close of every registered listener before *)
(* it ends any session, ends every registered session, and returns with    *)
(* both registries empty, never with part of the entries removed.          *)
(***************************************************************************)
C13_DisconnectAllClearsEverything ==
    [][shutdownLog' # shutdownLog =>
          /\ Len(shutdownLog') = 2
          /\ shutdownLog'[1] = [step |-> "server.close", objects |-> RegisteredServers]
          /\ shutdownLog'[2] = [step |-> "client.end", objects |-> RegisteredClients]
          /\ \A c \in RegisteredServers : listener'[c].state = "closed"
          /\ \A cl \in RegisteredClients : sock'[cl] = "ended"
          /\ \A key \in Keys : forwardingServers'[key] = NoEntry
          /\ \A i \in Identities : connections'[i] = NoClient]_vars

\* disconnectAll has closed a listener and ended a session
C13_Witness ==
    /\ Len(shutdownLog) = 2
    /\ shutdownLog[1].objects # {}
    /\ shutdownLog[2].objects # {}
    /\ \A key \in Keys : ~Has(key)
    /\ \A i \in Identities : connections[i] = NoClient

====
